---- MODULE Spec2Model ----
(***************************************************************************)
(* A model of the CPU6502 class of js/cpu6502.ts: the register file, the   *)
(* memory map of page handlers, the addressing-mode primitives, the        *)
(* instruction routines, the three composed opcode tables, the signal      *)
(* handlers (reset, irq, nmi) and the four step entry points.              *)
(*                                                                         *)
(* One JavaScript method call is one action.  A method body is translated  *)
(* as a chain of operators over a frame `c` that holds the fields of the   *)
(* object (`this`), the page-handler storage, and the value the last call  *)
(* returned (`val`).  Every call that reaches a page handler is appended   *)
(* to `log`, with the value of the SYNC line at that moment.               *)
(***************************************************************************)
EXTENDS Integers, Sequences, FiniteSets, TLC

\* ------------------------------------------------------------------------
\* JavaScript integer operators on the ranges the emulator uses
\* ------------------------------------------------------------------------

\* Width of the two's-complement window the bit operators work in.  Every
\* operand of & | ^ in the source is below 2^17 in magnitude.
BitWindow == 2 ^ 20

RECURSIVE AndN(_, _)
AndN(a, b) ==
  IF a = 0 \/ b = 0 THEN 0
  ELSE (a % 2) * (b % 2) + 2 * AndN(a \div 2, b \div 2)

RECURSIVE OrN(_, _)
OrN(a, b) ==
  IF a = 0 THEN b
  ELSE IF b = 0 THEN a
  ELSE (IF a % 2 = 1 \/ b % 2 = 1 THEN 1 ELSE 0) + 2 * OrN(a \div 2, b \div 2)

RECURSIVE XorN(_, _)
XorN(a, b) ==
  IF a = 0 THEN b
  ELSE IF b = 0 THEN a
  ELSE ((a + b) % 2) + 2 * XorN(a \div 2, b \div 2)

\* a & b, where at least one operand is a non-negative mask: the result is
\* the low bits of the two's-complement representation, as in JavaScript.
And(a, b) == AndN(a % BitWindow, b % BitWindow)
\* a | b and a ^ b on non-negative operands
Or(a, b) == OrN(a, b)
Xor(a, b) == XorN(a, b)
\* ~a
Not(a) == 0 - a - 1
\* a >> n and a << n on non-negative operands
Shr(a, n) == a \div (2 ^ n)
Shl(a, n) == a * (2 ^ n)

\* a & 0xff, a & 0xffff and a & 0xff00: the low bits of a (two's
\* complement when a is negative), and the page bits of a word
Lo8(a) == a % 256
Lo16(a) == a % 65536
Hi8(a) == Lo16(a) - Lo8(a)

Byte == 0 .. 255
Word == 0 .. 65535

\* ------------------------------------------------------------------------
\* Constants of the source
\* ------------------------------------------------------------------------

FLAVOR_6502 == "6502"
FLAVOR_ROCKWELL_65C02 == "rockwell65c02"
FLAVOR_WDC_65C02 == "wdc65c02"
FLAVORS_65C02 == {FLAVOR_ROCKWELL_65C02, FLAVOR_WDC_65C02}
FLAVORS == {FLAVOR_6502} \cup FLAVORS_65C02

\* flags
N == 128
V == 64
X == 32
B == 16
D == 8
I == 4
Z == 2
C == 1

\* loc
STACK == 256
NMI == 65530
RESET == 65532
BRK == 65534

\* Number of entries of memPages and of opary
PAGES == 256

\* ------------------------------------------------------------------------
\* Opcode tables
\* ------------------------------------------------------------------------

\* An Instruction: name, mode, and fn as the routine it calls with its
\* argument (an addressing function's name, a flag mask or a bit number).
Ins(name, fn, arg, mode) == [name |-> name, fn |-> fn, arg |-> arg, mode |-> mode]


\* this.op before the first instruction is decoded
Undefined == Ins("undefined", "undefined", "undefined", "undefined")
OPS_6502 ==
  (\hA9 :> Ins("LDA", "lda", "readImmediate", "immediate")) @@
  (\hA5 :> Ins("LDA", "lda", "readZeroPage", "zeroPage")) @@
  (\hB5 :> Ins("LDA", "lda", "readZeroPageX", "zeroPageX")) @@
  (\hAD :> Ins("LDA", "lda", "readAbsolute", "absolute")) @@
  (\hBD :> Ins("LDA", "lda", "readAbsoluteX", "absoluteX")) @@
  (\hB9 :> Ins("LDA", "lda", "readAbsoluteY", "absoluteY")) @@
  (\hA1 :> Ins("LDA", "lda", "readZeroPageXIndirect", "zeroPageXIndirect")) @@
  (\hB1 :> Ins("LDA", "lda", "readZeroPageIndirectY", "zeroPageIndirectY")) @@
  (\hA2 :> Ins("LDX", "ldx", "readImmediate", "immediate")) @@
  (\hA6 :> Ins("LDX", "ldx", "readZeroPage", "zeroPage")) @@
  (\hB6 :> Ins("LDX", "ldx", "readZeroPageY", "zeroPageY")) @@
  (\hAE :> Ins("LDX", "ldx", "readAbsolute", "absolute")) @@
  (\hBE :> Ins("LDX", "ldx", "readAbsoluteY", "absoluteY")) @@
  (\hA0 :> Ins("LDY", "ldy", "readImmediate", "immediate")) @@
  (\hA4 :> Ins("LDY", "ldy", "readZeroPage", "zeroPage")) @@
  (\hB4 :> Ins("LDY", "ldy", "readZeroPageX", "zeroPageX")) @@
  (\hAC :> Ins("LDY", "ldy", "readAbsolute", "absolute")) @@
  (\hBC :> Ins("LDY", "ldy", "readAbsoluteX", "absoluteX")) @@
  (\h85 :> Ins("STA", "sta", "writeZeroPage", "zeroPage")) @@
  (\h95 :> Ins("STA", "sta", "writeZeroPageX", "zeroPageX")) @@
  (\h8D :> Ins("STA", "sta", "writeAbsolute", "absolute")) @@
  (\h9D :> Ins("STA", "sta", "writeAbsoluteX", "absoluteX")) @@
  (\h99 :> Ins("STA", "sta", "writeAbsoluteY", "absoluteY")) @@
  (\h81 :> Ins("STA", "sta", "writeZeroPageXIndirect", "zeroPageXIndirect")) @@
  (\h91 :> Ins("STA", "sta", "writeZeroPageIndirectY", "zeroPageIndirectY")) @@
  (\h86 :> Ins("STX", "stx", "writeZeroPage", "zeroPage")) @@
  (\h96 :> Ins("STX", "stx", "writeZeroPageY", "zeroPageY")) @@
  (\h8E :> Ins("STX", "stx", "writeAbsolute", "absolute")) @@
  (\h84 :> Ins("STY", "sty", "writeZeroPage", "zeroPage")) @@
  (\h94 :> Ins("STY", "sty", "writeZeroPageX", "zeroPageX")) @@
  (\h8C :> Ins("STY", "sty", "writeAbsolute", "absolute")) @@
  (\h69 :> Ins("ADC", "adc", "readImmediate", "immediate")) @@
  (\h65 :> Ins("ADC", "adc", "readZeroPage", "zeroPage")) @@
  (\h75 :> Ins("ADC", "adc", "readZeroPageX", "zeroPageX")) @@
  (\h6D :> Ins("ADC", "adc", "readAbsolute", "absolute")) @@
  (\h7D :> Ins("ADC", "adc", "readAbsoluteX", "absoluteX")) @@
  (\h79 :> Ins("ADC", "adc", "readAbsoluteY", "absoluteY")) @@
  (\h61 :> Ins("ADC", "adc", "readZeroPageXIndirect", "zeroPageXIndirect")) @@
  (\h71 :> Ins("ADC", "adc", "readZeroPageIndirectY", "zeroPageIndirectY")) @@
  (\hE9 :> Ins("SBC", "sbc", "readImmediate", "immediate")) @@
  (\hE5 :> Ins("SBC", "sbc", "readZeroPage", "zeroPage")) @@
  (\hF5 :> Ins("SBC", "sbc", "readZeroPageX", "zeroPageX")) @@
  (\hED :> Ins("SBC", "sbc", "readAbsolute", "absolute")) @@
  (\hFD :> Ins("SBC", "sbc", "readAbsoluteX", "absoluteX")) @@
  (\hF9 :> Ins("SBC", "sbc", "readAbsoluteY", "absoluteY")) @@
  (\hE1 :> Ins("SBC", "sbc", "readZeroPageXIndirect", "zeroPageXIndirect")) @@
  (\hF1 :> Ins("SBC", "sbc", "readZeroPageIndirectY", "zeroPageIndirectY")) @@
  (\hE6 :> Ins("INC", "inc", "readAddrZeroPage", "zeroPage")) @@
  (\hF6 :> Ins("INC", "inc", "readAddrZeroPageX", "zeroPageX")) @@
  (\hEE :> Ins("INC", "inc", "readAddrAbsolute", "absolute")) @@
  (\hFE :> Ins("INC", "inc", "readAddrAbsoluteX", "absoluteX")) @@
  (\hE8 :> Ins("INX", "inx", "", "implied")) @@
  (\hC8 :> Ins("INY", "iny", "", "implied")) @@
  (\hC6 :> Ins("DEC", "dec", "readAddrZeroPage", "zeroPage")) @@
  (\hD6 :> Ins("DEC", "dec", "readAddrZeroPageX", "zeroPageX")) @@
  (\hCE :> Ins("DEC", "dec", "readAddrAbsolute", "absolute")) @@
  (\hDE :> Ins("DEC", "dec", "readAddrAbsoluteX", "absoluteX")) @@
  (\hCA :> Ins("DEX", "dex", "", "implied")) @@
  (\h88 :> Ins("DEY", "dey", "", "implied")) @@
  (\h0A :> Ins("ASL", "aslA", "", "accumulator")) @@
  (\h06 :> Ins("ASL", "asl", "readAddrZeroPage", "zeroPage")) @@
  (\h16 :> Ins("ASL", "asl", "readAddrZeroPageX", "zeroPageX")) @@
  (\h0E :> Ins("ASL", "asl", "readAddrAbsolute", "absolute")) @@
  (\h1E :> Ins("ASL", "asl", "readAddrAbsoluteX", "absoluteX")) @@
  (\h4A :> Ins("LSR", "lsrA", "", "accumulator")) @@
  (\h46 :> Ins("LSR", "lsr", "readAddrZeroPage", "zeroPage")) @@
  (\h56 :> Ins("LSR", "lsr", "readAddrZeroPageX", "zeroPageX")) @@
  (\h4E :> Ins("LSR", "lsr", "readAddrAbsolute", "absolute")) @@
  (\h5E :> Ins("LSR", "lsr", "readAddrAbsoluteX", "absoluteX")) @@
  (\h2A :> Ins("ROL", "rolA", "", "accumulator")) @@
  (\h26 :> Ins("ROL", "rol", "readAddrZeroPage", "zeroPage")) @@
  (\h36 :> Ins("ROL", "rol", "readAddrZeroPageX", "zeroPageX")) @@
  (\h2E :> Ins("ROL", "rol", "readAddrAbsolute", "absolute")) @@
  (\h3E :> Ins("ROL", "rol", "readAddrAbsoluteX", "absoluteX")) @@
  (\h6A :> Ins("ROR", "rorA", "", "accumulator")) @@
  (\h66 :> Ins("ROR", "ror", "readAddrZeroPage", "zeroPage")) @@
  (\h76 :> Ins("ROR", "ror", "readAddrZeroPageX", "zeroPageX")) @@
  (\h6E :> Ins("ROR", "ror", "readAddrAbsolute", "absolute")) @@
  (\h7E :> Ins("ROR", "ror", "readAddrAbsoluteX", "absoluteX")) @@
  (\h29 :> Ins("AND", "and", "readImmediate", "immediate")) @@
  (\h25 :> Ins("AND", "and", "readZeroPage", "zeroPage")) @@
  (\h35 :> Ins("AND", "and", "readZeroPageX", "zeroPageX")) @@
  (\h2D :> Ins("AND", "and", "readAbsolute", "absolute")) @@
  (\h3D :> Ins("AND", "and", "readAbsoluteX", "absoluteX")) @@
  (\h39 :> Ins("AND", "and", "readAbsoluteY", "absoluteY")) @@
  (\h21 :> Ins("AND", "and", "readZeroPageXIndirect", "zeroPageXIndirect")) @@
  (\h31 :> Ins("AND", "and", "readZeroPageIndirectY", "zeroPageIndirectY")) @@
  (\h09 :> Ins("ORA", "ora", "readImmediate", "immediate")) @@
  (\h05 :> Ins("ORA", "ora", "readZeroPage", "zeroPage")) @@
  (\h15 :> Ins("ORA", "ora", "readZeroPageX", "zeroPageX")) @@
  (\h0D :> Ins("ORA", "ora", "readAbsolute", "absolute")) @@
  (\h1D :> Ins("ORA", "ora", "readAbsoluteX", "absoluteX")) @@
  (\h19 :> Ins("ORA", "ora", "readAbsoluteY", "absoluteY")) @@
  (\h01 :> Ins("ORA", "ora", "readZeroPageXIndirect", "zeroPageXIndirect")) @@
  (\h11 :> Ins("ORA", "ora", "readZeroPageIndirectY", "zeroPageIndirectY")) @@
  (\h49 :> Ins("EOR", "eor", "readImmediate", "immediate")) @@
  (\h45 :> Ins("EOR", "eor", "readZeroPage", "zeroPage")) @@
  (\h55 :> Ins("EOR", "eor", "readZeroPageX", "zeroPageX")) @@
  (\h4D :> Ins("EOR", "eor", "readAbsolute", "absolute")) @@
  (\h5D :> Ins("EOR", "eor", "readAbsoluteX", "absoluteX")) @@
  (\h59 :> Ins("EOR", "eor", "readAbsoluteY", "absoluteY")) @@
  (\h41 :> Ins("EOR", "eor", "readZeroPageXIndirect", "zeroPageXIndirect")) @@
  (\h51 :> Ins("EOR", "eor", "readZeroPageIndirectY", "zeroPageIndirectY")) @@
  (\hC9 :> Ins("CMP", "cmp", "readImmediate", "immediate")) @@
  (\hC5 :> Ins("CMP", "cmp", "readZeroPage", "zeroPage")) @@
  (\hD5 :> Ins("CMP", "cmp", "readZeroPageX", "zeroPageX")) @@
  (\hCD :> Ins("CMP", "cmp", "readAbsolute", "absolute")) @@
  (\hDD :> Ins("CMP", "cmp", "readAbsoluteX", "absoluteX")) @@
  (\hD9 :> Ins("CMP", "cmp", "readAbsoluteY", "absoluteY")) @@
  (\hC1 :> Ins("CMP", "cmp", "readZeroPageXIndirect", "zeroPageXIndirect")) @@
  (\hD1 :> Ins("CMP", "cmp", "readZeroPageIndirectY", "zeroPageIndirectY")) @@
  (\hE0 :> Ins("CPX", "cpx", "readImmediate", "immediate")) @@
  (\hE4 :> Ins("CPX", "cpx", "readZeroPage", "zeroPage")) @@
  (\hEC :> Ins("CPX", "cpx", "readAbsolute", "absolute")) @@
  (\hC0 :> Ins("CPY", "cpy", "readImmediate", "immediate")) @@
  (\hC4 :> Ins("CPY", "cpy", "readZeroPage", "zeroPage")) @@
  (\hCC :> Ins("CPY", "cpy", "readAbsolute", "absolute")) @@
  (\h24 :> Ins("BIT", "bit", "readZeroPage", "zeroPage")) @@
  (\h2C :> Ins("BIT", "bit", "readAbsolute", "absolute")) @@
  (\h90 :> Ins("BCC", "brc", C, "relative")) @@
  (\hB0 :> Ins("BCS", "brs", C, "relative")) @@
  (\hF0 :> Ins("BEQ", "brs", Z, "relative")) @@
  (\h30 :> Ins("BMI", "brs", N, "relative")) @@
  (\hD0 :> Ins("BNE", "brc", Z, "relative")) @@
  (\h10 :> Ins("BPL", "brc", N, "relative")) @@
  (\h50 :> Ins("BVC", "brc", V, "relative")) @@
  (\h70 :> Ins("BVS", "brs", V, "relative")) @@
  (\hAA :> Ins("TAX", "tax", "", "implied")) @@
  (\h8A :> Ins("TXA", "txa", "", "implied")) @@
  (\hA8 :> Ins("TAY", "tay", "", "implied")) @@
  (\h98 :> Ins("TYA", "tya", "", "implied")) @@
  (\hBA :> Ins("TSX", "tsx", "", "implied")) @@
  (\h9A :> Ins("TXS", "txs", "", "implied")) @@
  (\h48 :> Ins("PHA", "pha", "", "implied")) @@
  (\h68 :> Ins("PLA", "pla", "", "implied")) @@
  (\h08 :> Ins("PHP", "php", "", "implied")) @@
  (\h28 :> Ins("PLP", "plp", "", "implied")) @@
  (\h4C :> Ins("JMP", "jmp", "readAddrAbsolute", "absolute")) @@
  (\h6C :> Ins("JMP", "jmp", "readAddrAbsoluteIndirectBug", "absoluteIndirect")) @@
  (\h20 :> Ins("JSR", "jsr", "", "absolute")) @@
  (\h60 :> Ins("RTS", "rts", "", "implied")) @@
  (\h40 :> Ins("RTI", "rti", "", "implied")) @@
  (\h38 :> Ins("SEC", "set", C, "implied")) @@
  (\hF8 :> Ins("SED", "set", D, "implied")) @@
  (\h78 :> Ins("SEI", "set", I, "implied")) @@
  (\h18 :> Ins("CLC", "clr", C, "implied")) @@
  (\hD8 :> Ins("CLD", "clr", D, "implied")) @@
  (\h58 :> Ins("CLI", "clr", I, "implied")) @@
  (\hB8 :> Ins("CLV", "clr", V, "implied")) @@
  (\hEA :> Ins("NOP", "nop", "implied", "implied")) @@
  (\h00 :> Ins("BRK", "brk", "readImmediate", "immediate"))

OPS_65C02 ==
  (\h1A :> Ins("INC", "incA", "", "accumulator")) @@
  (\h3A :> Ins("DEC", "decA", "", "accumulator")) @@
  (\h12 :> Ins("ORA", "ora", "readZeroPageIndirect", "zeroPageIndirect")) @@
  (\h32 :> Ins("AND", "and", "readZeroPageIndirect", "zeroPageIndirect")) @@
  (\h52 :> Ins("EOR", "eor", "readZeroPageIndirect", "zeroPageIndirect")) @@
  (\h72 :> Ins("ADC", "adc", "readZeroPageIndirect", "zeroPageIndirect")) @@
  (\h92 :> Ins("STA", "sta", "writeZeroPageIndirect", "zeroPageIndirect")) @@
  (\hB2 :> Ins("LDA", "lda", "readZeroPageIndirect", "zeroPageIndirect")) @@
  (\hD2 :> Ins("CMP", "cmp", "readZeroPageIndirect", "zeroPageIndirect")) @@
  (\hF2 :> Ins("SBC", "sbc", "readZeroPageIndirect", "zeroPageIndirect")) @@
  (\h34 :> Ins("BIT", "bit", "readZeroPageX", "zeroPageX")) @@
  (\h3C :> Ins("BIT", "bit", "readAbsoluteX", "absoluteX")) @@
  (\h89 :> Ins("BIT", "bitI", "readImmediate", "immediate")) @@
  (\h6C :> Ins("JMP", "jmp", "readAddrAbsoluteIndirect", "absoluteIndirect")) @@
  (\h7C :> Ins("JMP", "jmp", "readAddrAbsoluteXIndirect", "absoluteXIndirect")) @@
  (\h0F :> Ins("BBR0", "bbr", 0, "zeroPage_relative")) @@
  (\h1F :> Ins("BBR1", "bbr", 1, "zeroPage_relative")) @@
  (\h2F :> Ins("BBR2", "bbr", 2, "zeroPage_relative")) @@
  (\h3F :> Ins("BBR3", "bbr", 3, "zeroPage_relative")) @@
  (\h4F :> Ins("BBR4", "bbr", 4, "zeroPage_relative")) @@
  (\h5F :> Ins("BBR5", "bbr", 5, "zeroPage_relative")) @@
  (\h6F :> Ins("BBR6", "bbr", 6, "zeroPage_relative")) @@
  (\h7F :> Ins("BBR7", "bbr", 7, "zeroPage_relative")) @@
  (\h8F :> Ins("BBS0", "bbs", 0, "zeroPage_relative")) @@
  (\h9F :> Ins("BBS1", "bbs", 1, "zeroPage_relative")) @@
  (\hAF :> Ins("BBS2", "bbs", 2, "zeroPage_relative")) @@
  (\hBF :> Ins("BBS3", "bbs", 3, "zeroPage_relative")) @@
  (\hCF :> Ins("BBS4", "bbs", 4, "zeroPage_relative")) @@
  (\hDF :> Ins("BBS5", "bbs", 5, "zeroPage_relative")) @@
  (\hEF :> Ins("BBS6", "bbs", 6, "zeroPage_relative")) @@
  (\hFF :> Ins("BBS7", "bbs", 7, "zeroPage_relative")) @@
  (\h80 :> Ins("BRA", "brc", 0, "relative")) @@
  (\h02 :> Ins("NOP", "nop", "readImmediate", "immediate")) @@
  (\h22 :> Ins("NOP", "nop", "readImmediate", "immediate")) @@
  (\h42 :> Ins("NOP", "nop", "readImmediate", "immediate")) @@
  (\h44 :> Ins("NOP", "nop", "readZeroPage", "immediate")) @@
  (\h54 :> Ins("NOP", "nop", "readZeroPageX", "immediate")) @@
  (\h62 :> Ins("NOP", "nop", "readImmediate", "immediate")) @@
  (\h82 :> Ins("NOP", "nop", "readImmediate", "immediate")) @@
  (\hC2 :> Ins("NOP", "nop", "readImmediate", "immediate")) @@
  (\hD4 :> Ins("NOP", "nop", "readZeroPageX", "immediate")) @@
  (\hE2 :> Ins("NOP", "nop", "readImmediate", "immediate")) @@
  (\hF4 :> Ins("NOP", "nop", "readZeroPageX", "immediate")) @@
  (\h5C :> Ins("NOP", "nop", "readNop", "absolute")) @@
  (\hDC :> Ins("NOP", "nop", "readNop", "absolute")) @@
  (\hFC :> Ins("NOP", "nop", "readNop", "absolute")) @@
  (\hDA :> Ins("PHX", "phx", "", "implied")) @@
  (\h5A :> Ins("PHY", "phy", "", "implied")) @@
  (\hFA :> Ins("PLX", "plx", "", "implied")) @@
  (\h7A :> Ins("PLY", "ply", "", "implied")) @@
  (\h07 :> Ins("RMB0", "rmb", 0, "zeroPage")) @@
  (\h17 :> Ins("RMB1", "rmb", 1, "zeroPage")) @@
  (\h27 :> Ins("RMB2", "rmb", 2, "zeroPage")) @@
  (\h37 :> Ins("RMB3", "rmb", 3, "zeroPage")) @@
  (\h47 :> Ins("RMB4", "rmb", 4, "zeroPage")) @@
  (\h57 :> Ins("RMB5", "rmb", 5, "zeroPage")) @@
  (\h67 :> Ins("RMB6", "rmb", 6, "zeroPage")) @@
  (\h77 :> Ins("RMB7", "rmb", 7, "zeroPage")) @@
  (\h87 :> Ins("SMB0", "smb", 0, "zeroPage")) @@
  (\h97 :> Ins("SMB1", "smb", 1, "zeroPage")) @@
  (\hA7 :> Ins("SMB2", "smb", 2, "zeroPage")) @@
  (\hB7 :> Ins("SMB3", "smb", 3, "zeroPage")) @@
  (\hC7 :> Ins("SMB4", "smb", 4, "zeroPage")) @@
  (\hD7 :> Ins("SMB5", "smb", 5, "zeroPage")) @@
  (\hE7 :> Ins("SMB6", "smb", 6, "zeroPage")) @@
  (\hF7 :> Ins("SMB7", "smb", 7, "zeroPage")) @@
  (\h64 :> Ins("STZ", "stz", "writeZeroPage", "zeroPage")) @@
  (\h74 :> Ins("STZ", "stz", "writeZeroPageX", "zeroPageX")) @@
  (\h9C :> Ins("STZ", "stz", "writeAbsolute", "absolute")) @@
  (\h9E :> Ins("STZ", "stz", "writeAbsoluteX", "absoluteX")) @@
  (\h14 :> Ins("TRB", "trb", "readAddrZeroPage", "zeroPage")) @@
  (\h1C :> Ins("TRB", "trb", "readAddrAbsolute", "absolute")) @@
  (\h04 :> Ins("TSB", "tsb", "readAddrZeroPage", "zeroPage")) @@
  (\h0C :> Ins("TSB", "tsb", "readAddrAbsolute", "absolute"))

OPS_NMOS_6502 ==
  (\h0F :> Ins("ASO", "aso", "readAddrAbsolute", "absolute")) @@
  (\h1F :> Ins("ASO", "aso", "readAddrAbsoluteX", "absoluteX")) @@
  (\h1B :> Ins("ASO", "aso", "readAddrAbsoluteY", "absoluteY")) @@
  (\h07 :> Ins("ASO", "aso", "readAddrZeroPage", "zeroPage")) @@
  (\h17 :> Ins("ASO", "aso", "readAddrZeroPageX", "zeroPageX")) @@
  (\h03 :> Ins("ASO", "aso", "readAddrZeroPageXIndirect", "zeroPageXIndirect")) @@
  (\h13 :> Ins("ASO", "aso", "readAddrZeroPageIndirectY", "zeroPageIndirectY")) @@
  (\h2F :> Ins("RLA", "rla", "readAddrAbsolute", "absolute")) @@
  (\h3F :> Ins("RLA", "rla", "readAddrAbsoluteX", "absoluteX")) @@
  (\h3B :> Ins("RLA", "rla", "readAddrAbsoluteY", "absoluteY")) @@
  (\h27 :> Ins("RLA", "rla", "readAddrZeroPage", "zeroPage")) @@
  (\h37 :> Ins("RLA", "rla", "readAddrZeroPageX", "zeroPageX")) @@
  (\h23 :> Ins("RLA", "rla", "readAddrZeroPageXIndirect", "zeroPageXIndirect")) @@
  (\h33 :> Ins("RLA", "rla", "readAddrZeroPageIndirectY", "zeroPageIndirectY")) @@
  (\h4F :> Ins("LSE", "lse", "readAddrAbsolute", "absolute")) @@
  (\h5F :> Ins("LSE", "lse", "readAddrAbsoluteX", "absoluteX")) @@
  (\h5B :> Ins("LSE", "lse", "readAddrAbsoluteY", "absoluteY")) @@
  (\h47 :> Ins("LSE", "lse", "readAddrZeroPage", "zeroPage")) @@
  (\h57 :> Ins("LSE", "lse", "readAddrZeroPageX", "zeroPageX")) @@
  (\h43 :> Ins("LSE", "lse", "readAddrZeroPageXIndirect", "zeroPageXIndirect")) @@
  (\h53 :> Ins("LSE", "lse", "readAddrZeroPageIndirectY", "zeroPageIndirectY")) @@
  (\h6F :> Ins("RRA", "rra", "readAddrAbsolute", "absolute")) @@
  (\h7F :> Ins("RRA", "rra", "readAddrAbsoluteX", "absoluteX")) @@
  (\h7B :> Ins("RRA", "rra", "readAddrAbsoluteY", "absoluteY")) @@
  (\h67 :> Ins("RRA", "rra", "readAddrZeroPage", "zeroPage")) @@
  (\h77 :> Ins("RRA", "rra", "readAddrZeroPageX", "zeroPageX")) @@
  (\h63 :> Ins("RRA", "rra", "readAddrZeroPageXIndirect", "zeroPageXIndirect")) @@
  (\h73 :> Ins("RRA", "rra", "readAddrZeroPageIndirectY", "zeroPageIndirectY")) @@
  (\h8F :> Ins("AXS", "axs", "writeAbsolute", "absolute")) @@
  (\h87 :> Ins("AXS", "axs", "writeZeroPage", "zeroPage")) @@
  (\h97 :> Ins("AXS", "axs", "writeZeroPageY", "zeroPageY")) @@
  (\h83 :> Ins("AXS", "axs", "writeZeroPageXIndirect", "zeroPageXIndirect")) @@
  (\hAF :> Ins("LAX", "lax", "readAbsolute", "absolute")) @@
  (\hBF :> Ins("LAX", "lax", "readAbsoluteY", "absoluteY")) @@
  (\hA7 :> Ins("LAX", "lax", "readZeroPage", "zeroPage")) @@
  (\hB7 :> Ins("LAX", "lax", "readZeroPageY", "zeroPageY")) @@
  (\hA3 :> Ins("LAX", "lax", "readZeroPageXIndirect", "zeroPageXIndirect")) @@
  (\hB3 :> Ins("LAX", "lax", "readZeroPageIndirectY", "zeroPageIndirectY")) @@
  (\hCF :> Ins("DCM", "dcm", "readAddrAbsolute", "absolute")) @@
  (\hDF :> Ins("DCM", "dcm", "readAddrAbsoluteX", "absoluteX")) @@
  (\hDB :> Ins("DCM", "dcm", "readAddrAbsoluteY", "absoluteY")) @@
  (\hC7 :> Ins("DCM", "dcm", "readAddrZeroPage", "zeroPage")) @@
  (\hD7 :> Ins("DCM", "dcm", "readAddrZeroPageX", "zeroPageX")) @@
  (\hC3 :> Ins("DCM", "dcm", "readAddrZeroPageXIndirect", "zeroPageXIndirect")) @@
  (\hD3 :> Ins("DCM", "dcm", "readAddrZeroPageIndirectY", "zeroPageIndirectY")) @@
  (\hEF :> Ins("INS", "ins", "readAddrAbsolute", "absolute")) @@
  (\hFF :> Ins("INS", "ins", "readAddrAbsoluteX", "absoluteX")) @@
  (\hFB :> Ins("INS", "ins", "readAddrAbsoluteY", "absoluteY")) @@
  (\hE7 :> Ins("INS", "ins", "readAddrZeroPage", "zeroPage")) @@
  (\hF7 :> Ins("INS", "ins", "readAddrZeroPageX", "zeroPageX")) @@
  (\hE3 :> Ins("INS", "ins", "readAddrZeroPageXIndirect", "zeroPageXIndirect")) @@
  (\hF3 :> Ins("INS", "ins", "readAddrZeroPageIndirectY", "zeroPageIndirectY")) @@
  (\h4B :> Ins("ALR", "alr", "readImmediate", "immediate")) @@
  (\h6B :> Ins("ARR", "arr", "readImmediate", "immediate")) @@
  (\h8B :> Ins("XAA", "xaa", "readImmediate", "immediate")) @@
  (\hAB :> Ins("OAL", "oal", "readImmediate", "immediate")) @@
  (\hCB :> Ins("SAX", "sax", "readImmediate", "immediate")) @@
  (\h1A :> Ins("NOP", "nop", "implied", "implied")) @@
  (\h3A :> Ins("NOP", "nop", "implied", "implied")) @@
  (\h5A :> Ins("NOP", "nop", "implied", "implied")) @@
  (\h7A :> Ins("NOP", "nop", "implied", "implied")) @@
  (\hDA :> Ins("NOP", "nop", "implied", "implied")) @@
  (\hFA :> Ins("NOP", "nop", "implied", "implied")) @@
  (\h80 :> Ins("SKB", "skp", "readImmediate", "immediate")) @@
  (\h82 :> Ins("SKB", "skp", "readImmediate", "immediate")) @@
  (\h89 :> Ins("SKB", "skp", "readImmediate", "immediate")) @@
  (\hC2 :> Ins("SKB", "skp", "readImmediate", "immediate")) @@
  (\hE2 :> Ins("SKB", "skp", "readImmediate", "immediate")) @@
  (\h04 :> Ins("SKB", "skp", "readZeroPage", "zeroPage")) @@
  (\h14 :> Ins("SKB", "skp", "readZeroPageX", "zeroPageX")) @@
  (\h34 :> Ins("SKB", "skp", "readZeroPageX", "zeroPageX")) @@
  (\h44 :> Ins("SKB", "skp", "readZeroPage", "zeroPage")) @@
  (\h54 :> Ins("SKB", "skp", "readZeroPageX", "zeroPageX")) @@
  (\h64 :> Ins("SKB", "skp", "readZeroPage", "zeroPage")) @@
  (\h74 :> Ins("SKB", "skp", "readZeroPageX", "zeroPageX")) @@
  (\hD4 :> Ins("SKB", "skp", "readZeroPageX", "zeroPageX")) @@
  (\hF4 :> Ins("SKB", "skp", "readZeroPageX", "zeroPageX")) @@
  (\h0C :> Ins("SKW", "skp", "readAddrAbsolute", "absolute")) @@
  (\h1C :> Ins("SKW", "skp", "readAddrAbsoluteX", "absoluteX")) @@
  (\h3C :> Ins("SKW", "skp", "readAddrAbsoluteX", "absoluteX")) @@
  (\h5C :> Ins("SKW", "skp", "readAddrAbsoluteX", "absoluteX")) @@
  (\h7C :> Ins("SKW", "skp", "readAddrAbsoluteX", "absoluteX")) @@
  (\hDC :> Ins("SKW", "skp", "readAddrAbsoluteX", "absoluteX")) @@
  (\hFC :> Ins("SKW", "skp", "readAddrAbsoluteX", "absoluteX")) @@
  (\h02 :> Ins("HLT", "hlt", "readNopImplied", "implied")) @@
  (\h12 :> Ins("HLT", "hlt", "readNopImplied", "implied")) @@
  (\h22 :> Ins("HLT", "hlt", "readNopImplied", "implied")) @@
  (\h32 :> Ins("HLT", "hlt", "readNopImplied", "implied")) @@
  (\h42 :> Ins("HLT", "hlt", "readNopImplied", "implied")) @@
  (\h52 :> Ins("HLT", "hlt", "readNopImplied", "implied")) @@
  (\h62 :> Ins("HLT", "hlt", "readNopImplied", "implied")) @@
  (\h72 :> Ins("HLT", "hlt", "readNopImplied", "implied")) @@
  (\h92 :> Ins("HLT", "hlt", "readNopImplied", "implied")) @@
  (\hB2 :> Ins("HLT", "hlt", "readNopImplied", "implied")) @@
  (\hD2 :> Ins("HLT", "hlt", "readNopImplied", "implied")) @@
  (\hF2 :> Ins("HLT", "hlt", "readNopImplied", "implied")) @@
  (\h9B :> Ins("TAS", "tas", "readAddrAbsoluteY", "absoluteY")) @@
  (\h9C :> Ins("SAY", "say", "readAddrAbsoluteX", "absoluteX")) @@
  (\h9E :> Ins("XAS", "xas", "readAddrAbsoluteY", "absoluteY")) @@
  (\h9F :> Ins("AXA", "axa", "readAddrAbsoluteY", "absoluteY")) @@
  (\h93 :> Ins("AXA", "axa", "readAddrZeroPageIndirectY", "zeroPageIndirectY")) @@
  (\h2B :> Ins("ANC", "anc", "readImmediate", "immediate")) @@
  (\h0B :> Ins("ANC", "anc", "readImmediate", "immediate")) @@
  (\hBB :> Ins("LAS", "las", "readAbsoluteY", "absoluteY")) @@
  (\hEB :> Ins("SBC", "sbc", "readImmediate", "immediate"))

OPS_ROCKWELL_65C02 ==
  (\hCB :> Ins("NOP", "nop", "implied", "implied")) @@
  (\hDB :> Ins("NOP", "nop", "readZeroPageX", "immediate"))

OPS_WDC_65C02 ==
  (\hCB :> Ins("WAI", "wai", "", "implied")) @@
  (\hDB :> Ins("STP", "stp", "", "implied"))

\* unknown(b): the Instruction of an opcode no table defines.  On the NMOS
\* 6502 the constructor throws; the entry is then marked "missing".
unknown(fl, b) ==
  IF fl \in FLAVORS_65C02
  THEN Ins("NOP", "nop", "readNopImplied", "implied")
  ELSE Ins("Missing", "missing", b, "implied")

\* ops as it would be were OPS_NMOS_6502 left out
opsWithoutUndocumented(fl) ==
  (IF fl \in FLAVORS_65C02
   THEN (IF fl = FLAVOR_WDC_65C02 THEN OPS_WDC_65C02 ELSE OPS_ROCKWELL_65C02)
        @@ OPS_65C02
   ELSE <<>>) @@ OPS_6502

\* ops as it would be were OPS_WDC_65C02 spread into both 65C02 flavors
opsWdcOnRockwell(fl) ==
  (IF fl \in FLAVORS_65C02 THEN OPS_WDC_65C02 @@ OPS_65C02
   ELSE OPS_NMOS_6502) @@ OPS_6502

\* The ops object the constructor composes for a flavor.  f @@ g keeps f
\* where both are defined, as the later spread does.
ops(fl) ==
  (IF fl \in FLAVORS_65C02
   THEN (IF fl = FLAVOR_WDC_65C02 THEN OPS_WDC_65C02 ELSE OPS_ROCKWELL_65C02)
        @@ OPS_65C02
   ELSE OPS_NMOS_6502) @@ OPS_6502

\* this.opary of a CPU of each flavor
\* opary[idx] = ops[idx] || this.unknown(idx), for idx in 0x00 .. 0xff
complete(fl, o) ==
  [idx \in 0 .. PAGES - 1 |->
     IF idx \in DOMAIN o THEN o[idx] ELSE unknown(fl, idx)]

OPARY == [fl \in FLAVORS |-> complete(fl, ops(fl))]

\* The constructor returns (does not throw `Missing xx`).
Constructs(fl) == \A idx \in 0 .. PAGES - 1 : OPARY[fl][idx].fn # "missing"

\* ------------------------------------------------------------------------
\* State
\* ------------------------------------------------------------------------

VARIABLES
  flavor,         \* this.flavor
  pc, sr, ar, xr, yr, sp,   \* registers
  op,             \* this.op, the Instruction last decoded
  addr,           \* last accessed memory address
  memPages,       \* page -> page handler (0 is BLANK_PAGE)
  resetHandlers,  \* handlers notified on reset, in order
  cycles, sync, wait, stop,
  store,          \* contents written into the page handlers
  last,           \* history: the call that led here, with its arguments
  pre,            \* history: registers and latches when that call began
  log,            \* history: page-handler calls and marks of that call
  fault,          \* history: the access on which that call threw, or <<>>
  resetLog,       \* history: handlers whose reset() that call invoked
  added,          \* history: handlers passed to addPageHandler so far
  callsLeft       \* host: the number of calls it still makes

vars == <<flavor, pc, sr, ar, xr, yr, sp, op, addr, memPages, resetHandlers,
          cycles, sync, wait, stop, store, last, pre, log, fault,
          resetLog, added, callsLeft>>

is65C02 == flavor \in FLAVORS_65C02


\* this.opary
opary == OPARY[flavor]

\* ------------------------------------------------------------------------
\* Inputs: the page handlers the host installs and what they hold
\* ------------------------------------------------------------------------

\* Page handlers the host may add: start(), end() and whether the object has
\* a reset method.  Handler 1 is RAM over the whole address space.
HandlerDefs ==
  << [start |-> 0, end |-> 255, resettable |-> TRUE],
     [start |-> 0, end |-> 3, resettable |-> TRUE],
     [start |-> 2, end |-> 4, resettable |-> FALSE],
     [start |-> 255, end |-> 255, resettable |-> TRUE] >>

Handlers == 1 .. Len(HandlerDefs)

\* Operand bytes that follow each opcode in the program areas
OperandSamples == << <<255, 255>>, <<128, 1>> >>

Variants == 1 .. Len(OperandSamples)

\* Program area v holds every opcode k at ProgBase(v) + 3k, followed by
\* the operand bytes OperandSamples[v].
ProgBase(v) == 4096 * v

InProgram(a) == (a \div 4096) \in Variants /\ a % 4096 < 3 * PAGES

ProgByte(a) ==
  IF (a % 4096) % 3 = 0 THEN (a % 4096) \div 3
  ELSE OperandSamples[a \div 4096][(a % 4096) % 3]

Fill(a) == (a * 7 + (a \div 256) * 13 + 3) % 256

\* What handler h returns for an address never written
Image(h, a) ==
  IF h = 1 /\ InProgram(a) THEN ProgByte(a) ELSE Fill(a + h - 1)

\* Bytes the host has written into handler 1 before the CPU runs
Preset ==
  (<<1, 0>> :> 208)          \* BNE
  @@ (<<1, 1>> :> 128)       \*   -128: the target wraps below 0x0000
  @@ (<<1, 128>> :> 3)       \* zero page: bits 0 and 1 only
  @@ (<<1, 256>> :> 223)     \* stack: every flag but X
  @@ (<<1, 257>> :> 255)
  @@ (<<1, 258>> :> 255)
  @@ (<<1, 384>> :> 96)      \* RTS at 0x0180, where JSR $0180 lands
  @@ (<<1, 512>> :> 72)      \* PHA; PLA at 0x0200
  @@ (<<1, 513>> :> 104)
  @@ (<<1, 514>> :> 8)       \* PHP; PLP at 0x0202
  @@ (<<1, 515>> :> 40)
  @@ (<<1, 516>> :> 108)     \* JMP ($02FF) at 0x0204
  @@ (<<1, 517>> :> 255)
  @@ (<<1, 518>> :> 2)
  @@ (<<1, 752>> :> 64)      \* RTI at 0x02F0 and at 0x02F4
  @@ (<<1, 756>> :> 64)
  @@ (<<1, 65530>> :> 244)   \* NMI vector 0x02F4
  @@ (<<1, 65531>> :> 2)
  @@ (<<1, 65532>> :> 0)     \* RESET vector 0x0400
  @@ (<<1, 65533>> :> 4)
  @@ (<<1, 65534>> :> 240)   \* IRQ/BRK vector 0x02F0; BEQ +2 as code
  @@ (<<1, 65535>> :> 2)     \*   HLT on the NMOS 6502

\* the page handler of a page no handler covers
BLANK_PAGE == 0
\* ------------------------------------------------------------------------
\* A method body is a chain over the frame c: the fields of `this`, the
\* handler storage (mem), the history of the call (log, fault, thrown) and
\* the value the last call returned (val).
\* ------------------------------------------------------------------------

\* The element of a one-element set.  `The({ e : r \in {v} })` is the
\* value of e with r bound to v, as in `const r = v; e`: the chains below
\* read from the last line (the first call) to the first (the last call).
The(S) == CHOOSE r \in S : TRUE

\* return <v>
Return(c, v) == [c EXCEPT !.val = v]

\* memPages[page].read(page, off)
HandlerRead(st, h, a) ==
  IF h = BLANK_PAGE THEN 0
  ELSE IF <<h, a>> \in DOMAIN st THEN st[<<h, a>>]
  ELSE Image(h, a)

\* memPages[page].write(page, off, val)
HandlerWrite(st, h, a, val) ==
  IF h = BLANK_PAGE THEN st ELSE (<<h, a>> :> val) @@ st

\* ------------------------------------------------------------------------
\* Flags and memory access
\* ------------------------------------------------------------------------

setFlag(c, f, on) ==
  [c EXCEPT !.sr = IF on THEN Or(c.sr, f) ELSE And(c.sr, Not(f))]

\* returns val
testNZ(c, val) ==
  [c EXCEPT !.sr = LET s1 == IF val = 0 THEN Or(c.sr, Z) ELSE And(c.sr, Not(Z))
                   IN IF val >= 128 THEN Or(s1, N) ELSE And(s1, Not(N)),
            !.val = val]

testZ(c, val) ==
  [c EXCEPT !.sr = IF val = 0 THEN Or(c.sr, Z) ELSE And(c.sr, Not(Z)),
            !.val = val]

\* Tick as it would be were an access counted twice
TickTwice(n) == n + 2

\* this.cycles++
Tick(n) == n + 1

\* this.memPages[page] is undefined: the TypeError leaves the method with
\* this.addr assigned and the cycle not counted.
Throw(c, kind, a) ==
  [c EXCEPT !.addr = a, !.thrown = TRUE,
            !.fault = <<kind, a \div 256, a % 256>>]

\* The handler call of readByte (kind "r", v the value read) or writeByte
\* (kind "w", v the value written), then this.cycles++.  The call enters
\* the history with the state of the SYNC line.
Access(c, kind, a, v) ==
  [c EXCEPT !.addr = a,
            !.val = IF kind = "r" THEN v ELSE c.val,
            !.mem = IF kind = "w"
                    THEN HandlerWrite(c.mem, memPages[a \div 256], a, v)
                    ELSE c.mem,
            !.cycles = Tick(c.cycles),
            !.log = Append(c.log, [k |-> kind, a |-> a, v |-> v,
                                   sync |-> c.sync, cyc |-> c.cycles])]

\* page = addr >> 8 indexes memPages; off = addr & 0xff
readByte(c, a) ==
  IF c.thrown THEN c
  ELSE IF (a \div 256) \notin DOMAIN memPages THEN Throw(c, "r", a)
  ELSE Access(c, "r", a, HandlerRead(c.mem, memPages[a \div 256], a))

writeByte(c, a, val) ==
  IF c.thrown THEN c
  ELSE IF (a \div 256) \notin DOMAIN memPages THEN Throw(c, "w", a)
  ELSE Access(c, "w", a, val)

readBytePC(c) == [readByte(c, c.pc) EXCEPT !.pc = Lo16(c.pc + 1)]

readWord(c, a) ==
  The({ The({ Return(r2, Or(r1.val, Shl(r2.val, 8)))
            : r2 \in {readByte(r1, a + 1)} })
      : r1 \in {readByte(c, a)} })

readWordPC(c) ==
  The({ The({ Return(r2, Or(r1.val, Shl(r2.val, 8)))
            : r2 \in {readBytePC(r1)} })
      : r1 \in {readBytePC(c)} })

\* readZPWord as it would be were addr + 1 not masked
readZPWordCarries(c, a) ==
  The({ The({ Return(msb, Or(Shl(msb.val, 8), lsb.val))
            : msb \in {readByte(lsb, a + 1)} })
      : lsb \in {readByte(c, Lo8(a))} })

readZPWord(c, a) ==
  The({ The({ Return(msb, Or(Shl(msb.val, 8), lsb.val))
            : msb \in {readByte(lsb, Lo8(a + 1))} })
      : lsb \in {readByte(c, Lo8(a))} })

pushByte(c, val) ==
  [writeByte(c, Or(STACK, c.sp), val) EXCEPT !.sp = Lo8(c.sp + 255)]

pushWord(c, val) == pushByte(pushByte(c, Shr(val, 8)), Lo8(val))

pullByte(c) ==
  readByte([c EXCEPT !.sp = Lo8(c.sp + 1)], Or(STACK, Lo8(c.sp + 1)))

pullWordRaw(c) ==
  The({ The({ Return(msb, Or(Shl(msb.val, 8), lsb.val))
            : msb \in {pullByte(lsb)} })
      : lsb \in {pullByte(c)} })

\* workCycle as it would be were every flavor to read
workCycleAlwaysReads(c, a, val) == readByte(c, a)

workCycle(c, a, val) ==
  IF is65C02 THEN readByte(c, a) ELSE writeByte(c, a, val)

workCycleIndexedWrite(c, p, a, addrIdx) ==
  IF is65C02 THEN readByte(c, p)
  ELSE readByte(c, Or(Hi8(a), Lo8(addrIdx)))

\* workCycleIndexedRead as it would be were the page not compared
workCycleIndexedReadAlways(c, p, a, addrIdx) ==
  IF is65C02 THEN readByte(c, p)
  ELSE readByte(c, Or(Hi8(a), Lo8(addrIdx)))

workCycleIndexedRead(c, p, a, addrIdx) ==
  IF Hi8(addrIdx) # Hi8(a)
  THEN IF is65C02 THEN readByte(c, p)
       ELSE readByte(c, Or(Hi8(a), Lo8(addrIdx)))
  ELSE c

\* ------------------------------------------------------------------------
\* Addressing-mode primitives.  A read function returns the operand, a
\* readAddr function the effective address, in c.val.
\* ------------------------------------------------------------------------

implied(c) == readByte(c, c.pc)

readImmediate(c) == readBytePC(c)

readAbsolute(c) ==
  The({ readByte(r, r.val)
      : r \in {readWordPC(c)} })

readZeroPage(c) ==
  The({ readByte(r, r.val)
      : r \in {readBytePC(c)} })

\* the body of readAbsoluteX and readAbsoluteY, idx the index register
readAbsoluteIdx(c, idx) ==
  The({ readByte(workCycleIndexedRead(r, r.addr, r.val, Lo16(r.val + idx)),
          Lo16(r.val + idx))
      : r \in {readWordPC(c)} })

\* the body of readZeroPageX and readZeroPageY
readZeroPageIdx(c, idx) ==
  The({ readByte(readByte(zpAddr, zpAddr.val), Lo8(zpAddr.val + idx))
      : zpAddr \in {readBytePC(c)} })

readZeroPageXIndirect(c) ==
  The({ The({ readByte(r, r.val)
            : r \in {readZPWord(readByte(zpAddr, zpAddr.val),
                        Lo8(zpAddr.val + c.xr))} })
      : zpAddr \in {readBytePC(c)} })

readZeroPageIndirectY(c) ==
  The({ The({ readByte(workCycleIndexedRead(r, zpAddr.addr, r.val,
                Lo16(r.val + c.yr)), Lo16(r.val + c.yr))
            : r \in {readZPWord(zpAddr, zpAddr.val)} })
      : zpAddr \in {readBytePC(c)} })

readZeroPageIndirect(c) ==
  The({ The({ readByte(r, r.val)
            : r \in {readZPWord(zpAddr, zpAddr.val)} })
      : zpAddr \in {readBytePC(c)} })

writeAbsolute(c, val) ==
  The({ writeByte(r, r.val, val)
      : r \in {readWordPC(c)} })

writeZeroPage(c, val) ==
  The({ writeByte(r, r.val, val)
      : r \in {readBytePC(c)} })

\* the body of writeAbsoluteX and writeAbsoluteY
writeAbsoluteIdx(c, idx, val) ==
  The({ writeByte(workCycleIndexedWrite(r, r.addr, r.val, Lo16(r.val + idx)),
          Lo16(r.val + idx), val)
      : r \in {readWordPC(c)} })

\* the body of writeZeroPageX and writeZeroPageY
writeZeroPageIdx(c, idx, val) ==
  The({ writeByte(readByte(zpAddr, zpAddr.val), Lo8(zpAddr.val + idx), val)
      : zpAddr \in {readBytePC(c)} })

writeZeroPageXIndirect(c, val) ==
  The({ The({ writeByte(r, r.val, val)
            : r \in {readZPWord(readByte(zpAddr, zpAddr.val),
                        Lo8(zpAddr.val + c.xr))} })
      : zpAddr \in {readBytePC(c)} })

writeZeroPageIndirectY(c, val) ==
  The({ The({ writeByte(workCycleIndexedWrite(r, zpAddr.addr, r.val,
                Lo16(r.val + c.yr)), Lo16(r.val + c.yr), val)
            : r \in {readZPWord(zpAddr, zpAddr.val)} })
      : zpAddr \in {readBytePC(c)} })

writeZeroPageIndirect(c, val) ==
  The({ The({ writeByte(r, r.val, val)
            : r \in {readZPWord(zpAddr, zpAddr.val)} })
      : zpAddr \in {readBytePC(c)} })

readAddrZeroPage(c) == readBytePC(c)

readAddrZeroPageX(c) ==
  The({ Return(readByte(zpAddr, zpAddr.val), Lo8(zpAddr.val + c.xr))
      : zpAddr \in {readBytePC(c)} })

readAddrAbsolute(c) == readWordPC(c)

readAddrAbsoluteIndirectBug(c) ==
  The({ The({ The({ Return(msb, Or(Shl(msb.val, 8), lsb.val))
                  : msb \in {readByte(lsb, Or(Hi8(r.val),
                                Lo8(Lo8(r.val) + 1)))} })
            : lsb \in {readByte(r, r.val)} })
      : r \in {readWordPC(c)} })

readAddrAbsoluteIndirect(c) ==
  The({ The({ Return(readByte(r, r.addr), r.val)
            : r \in {readWord(p, p.val)} })
      : p \in {readWordPC(c)} })

\* readAddrAbsoluteX as it would be were opts.inc not looked at
readAddrAbsoluteXNoOpts(c, incOpt) ==
  The({ Return(IF is65C02
          THEN IF Hi8(r.val) # Hi8(Lo16(r.val + c.xr))
          THEN readByte(r, r.addr) ELSE r ELSE readByte(r, Or(Hi8(r.val),
          Lo8(Lo16(r.val + c.xr)))), Lo16(r.val + c.xr))
      : r \in {readWordPC(c)} })

readAddrAbsoluteX(c, incOpt) ==
  The({ Return(IF is65C02
          THEN IF incOpt \/ Hi8(r.val) # Hi8(Lo16(r.val + c.xr))
          THEN readByte(r, r.addr) ELSE r ELSE readByte(r, Or(Hi8(r.val),
          Lo8(Lo16(r.val + c.xr)))), Lo16(r.val + c.xr))
      : r \in {readWordPC(c)} })

readAddrAbsoluteY(c) ==
  The({ Return(readByte(r, Or(Hi8(r.val), Lo8(Lo16(r.val + c.yr)))),
          Lo16(r.val + c.yr))
      : r \in {readWordPC(c)} })

readAddrZeroPageXIndirect(c) ==
  The({ readZPWord(readByte(zpAddr, zpAddr.val), Lo8(zpAddr.val + c.xr))
      : zpAddr \in {readBytePC(c)} })

readAddrZeroPageIndirectY(c) ==
  The({ The({ Return(readByte(r, Or(Hi8(r.val), Lo8(Lo16(r.val + c.yr)))),
                Lo16(r.val + c.yr))
            : r \in {readZPWord(zpAddr, zpAddr.val)} })
      : zpAddr \in {readBytePC(c)} })

readAddrAbsoluteXIndirect(c) ==
  The({ The({ readWord(readByte(msb, lsb.addr), Lo16(Or(Shl(msb.val, 8),
                lsb.val) + c.xr))
            : msb \in {readBytePC(lsb)} })
      : lsb \in {readBytePC(c)} })

readNop(c) ==
  The({ readByte(r, r.addr)
      : r \in {readWordPC(c)} })

\* readNopImplied as it would be were it to read the byte at the pc
readNopImpliedReads(c) == readByte(c, c.pc)

readNopImplied(c) == c

\* The function a table entry names, called as readFn()
Rd(c, f) ==
  CASE f = "implied" -> implied(c)
    [] f = "readImmediate" -> readImmediate(c)
    [] f = "readAbsolute" -> readAbsolute(c)
    [] f = "readZeroPage" -> readZeroPage(c)
    [] f = "readAbsoluteX" -> readAbsoluteIdx(c, c.xr)
    [] f = "readAbsoluteY" -> readAbsoluteIdx(c, c.yr)
    [] f = "readZeroPageX" -> readZeroPageIdx(c, c.xr)
    [] f = "readZeroPageY" -> readZeroPageIdx(c, c.yr)
    [] f = "readZeroPageXIndirect" -> readZeroPageXIndirect(c)
    [] f = "readZeroPageIndirectY" -> readZeroPageIndirectY(c)
    [] f = "readZeroPageIndirect" -> readZeroPageIndirect(c)
    [] f = "readNop" -> readNop(c)
    [] f = "readNopImplied" -> readNopImplied(c)

\* called as writeFn(val)
Wr(c, f, val) ==
  CASE f = "writeAbsolute" -> writeAbsolute(c, val)
    [] f = "writeZeroPage" -> writeZeroPage(c, val)
    [] f = "writeAbsoluteX" -> writeAbsoluteIdx(c, c.xr, val)
    [] f = "writeAbsoluteY" -> writeAbsoluteIdx(c, c.yr, val)
    [] f = "writeZeroPageX" -> writeZeroPageIdx(c, c.xr, val)
    [] f = "writeZeroPageY" -> writeZeroPageIdx(c, c.yr, val)
    [] f = "writeZeroPageXIndirect" -> writeZeroPageXIndirect(c, val)
    [] f = "writeZeroPageIndirectY" -> writeZeroPageIndirectY(c, val)
    [] f = "writeZeroPageIndirect" -> writeZeroPageIndirect(c, val)

\* called as readAddrFn() or readAddrFn({ inc: true })
RdAddr(c, f, incOpt) ==
  CASE f = "readAddrZeroPage" -> readAddrZeroPage(c)
    [] f = "readAddrZeroPageX" -> readAddrZeroPageX(c)
    [] f = "readAddrAbsolute" -> readAddrAbsolute(c)
    [] f = "readAddrAbsoluteIndirectBug" -> readAddrAbsoluteIndirectBug(c)
    [] f = "readAddrAbsoluteIndirect" -> readAddrAbsoluteIndirect(c)
    [] f = "readAddrAbsoluteX" -> readAddrAbsoluteX(c, incOpt)
    [] f = "readAddrAbsoluteY" -> readAddrAbsoluteY(c)
    [] f = "readAddrZeroPageXIndirect" -> readAddrZeroPageXIndirect(c)
    [] f = "readAddrZeroPageIndirectY" -> readAddrZeroPageIndirectY(c)
    [] f = "readAddrAbsoluteXIndirect" -> readAddrAbsoluteXIndirect(c)


\* ------------------------------------------------------------------------
\* ALU primitives
\* ------------------------------------------------------------------------

\* this.op?.mode
opMode(c) == c.op.mode

\* updateBCDFlags as it would be without its readByte
bcdPhantomReadNone(c, sub) == c

\* the readByte of updateBCDFlags on a 65C02
bcdPhantomRead(c, sub) ==
  IF opMode(c) = "immediate"
  THEN IF flavor = FLAVOR_WDC_65C02
       THEN readByte(c, IF sub THEN 184 ELSE 127)
       ELSE readByte(c, IF sub THEN 177 ELSE 89)
  ELSE readByte(c, c.addr)

\* (this.sr & flags.D) !== 0
decimal(c) == And(c.sr, D) # 0

\* c = (a & 0x0f) + (b & 0x0f) + ci
addNibbles(c, a, b) == And(a, 15) + And(b, 15) + And(c.sr, C)

\* c after the correction of the low nibble; c0 is addNibbles
addLow(c, c0, sub) ==
  IF ~decimal(c) THEN c0
  ELSE IF sub THEN (IF c0 < 16 THEN (c0 - 6) % 16 ELSE c0)
  ELSE (IF c0 > 9 THEN 16 + ((c0 + 6) % 16) ELSE c0)

\* addHigh as it would be without the correction
addHighUncorrected(c, c2, sub) == c2

\* c after the correction of the high nibble; c2 is the value updateFlags saw
addHigh(c, c2, sub) ==
  IF ~decimal(c) THEN c2
  ELSE IF sub THEN (IF c2 < 256 THEN c2 + 160 ELSE c2)
  ELSE (IF c2 >= 160 THEN c2 + 96 ELSE c2)

\* The four setFlag calls and the return of add: n, v, z, co as
\* updateFlags computes them from c2 and as updateBCDFlags overrides them
\* from c3; r is the frame after the readByte of updateBCDFlags.
addResult(c, r, a, b, sub, c2, c3) ==
  Return(
    setFlag(
      setFlag(
        setFlag(
          setFlag(r, N, (IF decimal(c) /\ is65C02 THEN Shr(Lo8(c3), 7)
                         ELSE Shr(Lo8(c2), 7)) # 0),
          V, Xor(Xor(Xor(Shr(a, 7), Shr(b, 7)), Shr(Lo8(c2), 7)),
                 Shr(c2, 8)) # 0),
        Z, IF decimal(c) /\ is65C02 THEN Lo8(c3) = 0
           ELSE Lo8(a + b + And(c.sr, C)) = 0),
      C, (IF decimal(c) /\ ~sub THEN Shr(c3, 8) ELSE Shr(c2, 8)) # 0),
    Lo8(c3))

\* add from `c += (a & 0xf0) + (b & 0xf0)` on; c2 is that sum
addSum(c, a, b, sub, c2) ==
  addResult(c, IF decimal(c) /\ is65C02 THEN bcdPhantomRead(c, sub) ELSE c,
            a, b, sub, c2, addHigh(c, c2, sub))

\* Returns a + b (b already complemented when sub) and updates the status
\* register.
add(c, a, b, sub) ==
  addSum(c, a, b, sub,
         addLow(c, addNibbles(c, a, b), sub) + And(a, 240) + And(b, 240))

increment(c, a) == testNZ(c, Lo8(a + 1))

decrement(c, a) == testNZ(c, Lo8(a + 255))

shiftLeft(c, val) ==
  testNZ(setFlag(c, C, And(val, 128) # 0), Lo8(Shl(val, 1)))

shiftRight(c, val) ==
  testNZ(setFlag(c, C, And(val, 1) # 0), Shr(val, 1))

rotateLeft(c, val) ==
  testNZ(setFlag(c, C, And(val, 128) # 0),
         Lo8(Or(Shl(val, 1), IF And(c.sr, C) # 0 THEN 1 ELSE 0)))

rotateRight(c, a) ==
  testNZ(setFlag(c, C, And(a, 1) # 0),
         Or(Shr(a, 1), IF And(c.sr, C) # 0 THEN 128 ELSE 0))

compare(c, a, b) ==
  testNZ(setFlag(c, C, a + Xor(b, 255) + 1 > 255), Lo8(a + Xor(b, 255) + 1))

\* ------------------------------------------------------------------------
\* Instructions.  A table entry's fn is a closure `() => this.f(g)`.  Where
\* g is an addressing function, f calls it once, before anything that
\* depends on its result: Operand is that call, and the operator f takes
\* the frame r in which it has returned (r.val is the value returned).
\* ------------------------------------------------------------------------

\* this.<reg> = <the value just returned>
Assign(c, reg) == [c EXCEPT ![reg] = c.val]

\* brk as it would be were the status pushed as irq() pushes it, without B
brkPushesStatus(r) ==
  The({ The({ Assign(readWord(r3, BRK), "pc")
            : r3 \in {setFlag(IF is65C02 THEN setFlag(pushByte(r2,
                         r2.sr), D, FALSE) ELSE pushByte(r2,
                         r2.sr), I, TRUE)} })
      : r2 \in {pushWord(r, r.pc)} })

\* after readFn(), which skips the signature byte
brk(r) ==
  The({ The({ Assign(readWord(r3, BRK), "pc")
            : r3 \in {setFlag(IF is65C02 THEN setFlag(pushByte(r2,
                         Or(r2.sr, B)), D, FALSE) ELSE pushByte(r2,
                         Or(r2.sr, B)), I, TRUE)} })
      : r2 \in {pushWord(r, r.pc)} })

stp(c) == readByte(readByte([c EXCEPT !.stop = TRUE], c.pc), c.pc)

wai(c) == readByte(readByte([c EXCEPT !.wait = TRUE], c.pc), c.pc)

\* the body of lda, ldx and ldy: this.<reg> = this.testNZ(readFn())
load(r, reg) == Assign(testNZ(r, r.val), reg)

\* the body of and, ora and eor: this.ar = this.testNZ(this.ar <f> readFn())
logic(r, f) ==
  Assign(testNZ(r, CASE f = "and" -> And(r.ar, r.val)
                     [] f = "ora" -> Or(r.ar, r.val)
                     [] f = "eor" -> Xor(r.ar, r.val)), "ar")

adc(r) == Assign(add(r, r.ar, r.val, FALSE), "ar")

\* sbc as it would be were the operand not complemented
sbcNoComplement(r) == Assign(add(r, r.ar, r.val, TRUE), "ar")

sbc(r) == Assign(add(r, r.ar, Xor(r.val, 255), TRUE), "ar")

\* The function a read-modify-write instruction applies to oldVal.
modify(c, f, oldVal) ==
  CASE f = "inc" -> increment(c, oldVal)
    [] f = "dec" -> decrement(c, oldVal)
    [] f = "asl" -> shiftLeft(c, oldVal)
    [] f = "lsr" -> shiftRight(c, oldVal)
    [] f = "rol" -> rotateLeft(c, oldVal)
    [] f = "ror" -> rotateRight(c, oldVal)

\* The body inc, dec, asl, lsr, rol and ror share after readAddrFn() has
\* returned a.val, and with which the NMOS illegal read-modify-write
\* instructions begin: read the old value, spend the work cycle, apply f,
\* write the result.  The result is returned.
rmw(a, f) ==
  The({ The({ writeByte(val, a.val, val.val)
            : val \in {modify(workCycle(oldVal, a.val, oldVal.val), f,
                          oldVal.val)} })
      : oldVal \in {readByte(a, a.val)} })

\* the body of incA, inx, iny, decA, dex, dey, aslA, lsrA, rolA and rorA:
\* readByte(pc), then f on the register
onRegister(c, reg, f) == Assign(modify(readByte(c, c.pc), f, c[reg]), reg)

\* the body of rmb and smb; newVal is what is written for the value val
bitOp(c, b, set) ==
  The({ The({ writeByte(readByte(val, a.val), a.val,
                IF set THEN Or(val.val, Shl(1, b))
                ELSE And(val.val, Xor(Shl(1, b), 255)))
            : val \in {readByte(a, a.val)} })
      : a \in {readBytePC(c)} })

\* the body of trb and tsb after readAddrFn() has returned a.val
testBits(a, set) ==
  The({ writeByte(readByte(testZ(val, And(val.val, a.ar)), a.val), a.val,
          IF set THEN Or(val.val, a.ar) ELSE And(val.val, Not(a.ar)))
      : val \in {readByte(a, a.val)} })

bit(r) ==
  setFlag(setFlag(setFlag(r, Z, And(r.val, r.ar) = 0), N,
                  And(r.val, 128) # 0), V, And(r.val, 64) # 0)

bitI(r) == setFlag(r, Z, And(r.val, r.ar) = 0)

\* branchTarget as it would be without the `& 0xffff`
branchTargetUnmasked(p, off) == p + (IF off > 127 THEN off - 256 ELSE off)

\* this.pc + (off > 127 ? off - 256 : off), & 0xffff
branchTarget(p, off) == Lo16(p + (IF off > 127 THEN off - 256 ELSE off))

\* branch as it would be without the read made when the page changes
branchNoCrossRead(off) ==
  [readByte(off, off.pc) EXCEPT !.pc = branchTarget(off.pc, off.val)]

\* the taken path of brs and brc; off is the frame after readBytePC
branch(off) ==
  The({ IF Hi8(r.pc) # Hi8(off.pc)
        THEN readByte(r, Or(Hi8(off.pc), Lo8(r.pc))) ELSE r
      : r \in {[readByte(off, off.pc)
                  EXCEPT !.pc = branchTarget(off.pc, off.val)]} })

\* the body of brs (want = TRUE) and brc (want = FALSE)
brx(c, f, want) ==
  The({ IF (And(f, off.sr) # 0) = want THEN branch(off) ELSE off
      : off \in {readBytePC(c)} })

\* bbx as it would be were the byte not written back
bbxNoWrite(c, b, want) ==
  The({ The({ The({ The({ IF (And(Shl(1, b), val.val) # 0) = want
                            THEN [r EXCEPT !.pc = branchTarget(off.pc,
                            off.val)] ELSE r
                        : r \in {readByte(off, Or(Hi8(off.pc),
                                    Lo8(branchTarget(off.pc, off.val))))} })
                  : off \in {readBytePC(val)} })
            : val \in {readByte(zpAddr, zpAddr.val)} })
      : zpAddr \in {readBytePC(c)} })

\* the body of bbr (want = FALSE) and bbs (want = TRUE)
bbx(c, b, want) ==
  The({ The({ The({ The({ IF (And(Shl(1, b), val.val) # 0) = want
                            THEN [r EXCEPT !.pc = branchTarget(off.pc,
                            off.val)] ELSE r
                        : r \in {readByte(off, Or(Hi8(off.pc),
                                    Lo8(branchTarget(off.pc, off.val))))} })
                  : off \in {readBytePC(writeByte(val, zpAddr.val, val.val))} })
            : val \in {readByte(zpAddr, zpAddr.val)} })
      : zpAddr \in {readBytePC(c)} })

\* the body of tax, txa, tay, tya, tsx and txs: readByte(pc), then
\* this.<to> = this.<from>, with testNZ unless to is sp
transfer(c, from, to) ==
  IF to = "sp" THEN [readByte(c, c.pc) EXCEPT !.sp = c[from]]
  ELSE testNZ([readByte(c, c.pc) EXCEPT ![to] = c[from]], c[from])

\* the body of pha, phx, phy and php: readByte(pc), pushByte(val)
push(c, val) == pushByte(readByte(c, c.pc), val)

\* readByte(pc); readByte(0x0100 | sp); pullByte()
pull(c) == pullByte(readByte(readByte(c, c.pc), Or(256, c.sp)))

\* pullRegister as it would be without the testNZ
pullRegisterNoFlags(r, reg) == Assign(r, reg)

\* the body of pla, plx and ply: this.<reg> = testNZ(<the byte pulled>)
pullRegister(r, reg) == testNZ(Assign(r, reg), r.val)

\* pullStatus as it would be were the byte pulled stored as it is
pullStatusRaw(c) == [c EXCEPT !.sr = c.val]

\* this.sr = (<the byte pulled> & ~flags.B) | flags.X
pullStatus(c) == [c EXCEPT !.sr = Or(And(c.val, Not(B)), X)]

plp(c) == pullStatus(pull(c))

\* this.pc = readAddrFn()
jmp(a) == Assign(a, "pc")

\* jsr as it would be were the pc pushed after both operand bytes are read
jsrPushesAfterOperand(c) ==
  The({ The({ The({ [r EXCEPT !.pc = Lo16(Or(Shl(msb.val, 8), lsb.val))]
                  : r \in {pushWord(readByte(msb, Or(256, msb.sp)), msb.pc)} })
            : msb \in {readBytePC(lsb)} })
      : lsb \in {readBytePC(c)} })

jsr(c) ==
  The({ The({ The({ [msb EXCEPT !.pc = Lo16(Or(Shl(msb.val, 8), lsb.val))]
                  : msb \in {readBytePC(pushWord(r, r.pc))} })
            : r \in {readByte(lsb, Or(256, lsb.sp))} })
      : lsb \in {readBytePC(c)} })

rts(c) ==
  The({ [readByte(a, a.val) EXCEPT !.pc = Lo16(a.val + 1)]
      : a \in {pullWordRaw(readByte(readByte(c, c.pc), Or(256, c.sp)))} })

\* rti as it would be were the pulled word incremented as rts does
rtiAddsOne(c) ==
  The({ [a EXCEPT !.pc = Lo16(a.val + 1)]
      : a \in {pullWordRaw(pullStatus(pull(c)))} })

rti(c) == Assign(pullWordRaw(pullStatus(pull(c))), "pc")

set(c, f) == [readByte(c, c.pc) EXCEPT !.sr = Or(c.sr, f)]

clr(c, f) == [readByte(c, c.pc) EXCEPT !.sr = And(c.sr, Not(f))]

\* readFn() and nothing more
nop(r) == r
\* NMOS 6502 illegal opcodes

aso(a) ==
  The({ testNZ([val EXCEPT !.ar = Or(a.ar, val.val)], Or(a.ar, val.val))
      : val \in {rmw(a, "asl")} })

rla(a) ==
  The({ testNZ([val EXCEPT !.ar = And(a.ar, val.val)], And(a.ar, val.val))
      : val \in {rmw(a, "rol")} })

lse(a) ==
  The({ testNZ([val EXCEPT !.ar = Xor(a.ar, val.val)], Xor(a.ar, val.val))
      : val \in {rmw(a, "lsr")} })

rra(a) ==
  The({ Assign(add(val, a.ar, val.val, FALSE), "ar")
      : val \in {rmw(a, "ror")} })

lax(r) == testNZ(Assign(Assign(r, "ar"), "xr"), r.val)

dcm(a) ==
  The({ compare(val, a.ar, val.val)
      : val \in {rmw(a, "dec")} })

ins(a) ==
  The({ Assign(add(val, a.ar, Xor(val.val, 255), TRUE), "ar")
      : val \in {rmw(a, "inc")} })

alr(r) == Assign(shiftRight(r, And(r.val, r.ar)), "ar")

\* the decimal fix-up of arr: val is readFn() & this.ar, a the rotated value
arrDecimal(c, val, a) ==
  The({ IF And(c.sr, D) # 0 /\ Shr(val, 4) + And(Shr(val, 4), 1) > 5
          THEN setFlag([c EXCEPT !.ar = Lo8(a1 + 96)], C, TRUE)
          ELSE setFlag([c EXCEPT !.ar = a1], C, Shr(val, 7) # 0)
      : a1 \in {IF And(c.sr, D) # 0 /\ And(val, 15) + And(And(val, 15),
                   1) > 5 THEN Or(And(a, 240), And(a + 6, 15)) ELSE a} })

arr(r) ==
  The({ The({ arrDecimal(setFlag(t, V, Xor(Shr(val, 7), And(Shr(val, 6),
                                                             1)) # 0),
                         val, t.val)
            : t \in {rotateRight(r, val)} })
      : val \in {And(r.val, r.ar)} })

xaa(r) ==
  Assign(testNZ(r, And(Or(And(r.xr, 238), And(And(r.xr, r.ar), 17)), r.val)),
         "ar")

\* oal as it would be were the constant 0xff
oalAllOnes(r) ==
  Assign(Assign(testNZ([r EXCEPT !.ar = Or(r.ar, 255)],
                       And(Or(r.ar, 255), r.val)), "ar"), "xr")

\* this.ar |= 0xee precedes readFn(), which does not read ar
oal(r) ==
  Assign(Assign(testNZ([r EXCEPT !.ar = Or(r.ar, 238)],
                       And(Or(r.ar, 238), r.val)), "ar"), "xr")

sax(b) ==
  The({ Assign(testNZ(setFlag(b, C, s > 255), Lo8(s)), "xr")
      : s \in {And(b.xr, b.ar) + Xor(b.val, 255) + 1} })

\* val & ((msb + 1) & 0xff), msb = addr >> 8
unstable(val, a) == And(val, Lo8(Shr(a, 8) + 1))

tas(a) ==
  writeByte([a EXCEPT !.sp = And(a.xr, a.ar)], a.val,
            unstable(And(a.xr, a.ar), a.val))

say(a) == writeByte(a, a.val, unstable(a.yr, a.val))

xas(a) == writeByte(a, a.val, unstable(a.xr, a.val))

axa(a) == writeByte(a, a.val, unstable(And(a.xr, a.ar), a.val))

anc(r) ==
  The({ setFlag(t, C, And(t.ar, 128) # 0)
      : t \in {Assign(testNZ(r, And(r.ar, r.val)), "ar")} })

las(r) ==
  The({ Assign(testNZ([r EXCEPT !.sp = val, !.xr = val], val), "ar")
      : val \in {And(r.sp, r.val)} })

\* hlt as it would be without the rewind of the pc
hltNoRewind(c) ==
  [readByte(readByte(c, c.pc), c.pc) EXCEPT !.stop = TRUE]

\* hlt as it would be with one read of the byte at the pc
hltReadsOnce(c) ==
  [readByte(c, c.pc) EXCEPT !.pc = Lo16(c.pc - 1), !.stop = TRUE]

hlt(c) ==
  [readByte(readByte(c, c.pc), c.pc) EXCEPT !.pc = Lo16(c.pc - 1),
                                            !.stop = TRUE]

\* ------------------------------------------------------------------------
\* Running an Instruction
\* ------------------------------------------------------------------------

\* the fns that call their argument as readFn()
ReadFns ==
  {"lda", "ldx", "ldy", "adc", "sbc", "and", "ora", "eor", "bit", "bitI",
   "cmp", "cpx", "cpy", "nop", "brk", "lax", "alr", "arr", "xaa", "oal",
   "sax", "anc", "las"}

\* the fns that call their argument as readAddrFn()
AddrFns ==
  {"asl", "lsr", "rol", "ror", "trb", "tsb", "jmp", "aso", "rla", "lse",
   "rra", "tas", "say", "xas", "axa"}

\* the fns that call their argument as readAddrFn({ inc: true })
IncFns == {"inc", "dec", "dcm", "ins"}

\* the fns that call their argument as writeFn(val)
WriteFns == {"sta", "stx", "sty", "stz", "axs"}

\* the addressing functions the tables pass to skp that return an address
SkpAddr == {"readAddrAbsolute", "readAddrAbsoluteX"}

\* the val with which sta, stx, sty, stz and axs call writeFn(val)
Stored(c, f) ==
  CASE f = "sta" -> c.ar [] f = "stx" -> c.xr [] f = "sty" -> c.yr
    [] f = "stz" -> 0 [] f = "axs" -> And(c.ar, c.xr)

\* The call fn makes of its addressing function; c when it has none.
Operand(c, instr) ==
  CASE instr.fn \in ReadFns \/ (instr.fn = "skp" /\ instr.arg \notin SkpAddr)
         -> Rd(c, instr.arg)
    [] instr.fn \in AddrFns \cup IncFns
       \/ (instr.fn = "skp" /\ instr.arg \in SkpAddr)
         -> RdAddr(c, instr.arg, instr.fn \in IncFns)
    [] instr.fn \in WriteFns -> Wr(c, instr.arg, Stored(c, instr.fn))
    [] OTHER -> c

\* What fn does with the frame r Operand returns; g is fn's argument.  An
\* exception thrown by the addressing function leaves fn at once; the
\* stores, nop and skp do nothing but the call.
Finish(r, f, g) ==
  IF r.thrown \/ f \in WriteFns \cup {"nop", "skp"} THEN r
  ELSE
  CASE f = "lda" -> load(r, "ar") [] f = "ldx" -> load(r, "xr")
    [] f = "ldy" -> load(r, "yr")
    [] f = "adc" -> adc(r) [] f = "sbc" -> sbc(r)
    [] f \in {"inc", "dec", "asl", "lsr", "rol", "ror"} -> rmw(r, f)
    [] f = "incA" -> onRegister(r, "ar", "inc")
    [] f = "decA" -> onRegister(r, "ar", "dec")
    [] f = "inx" -> onRegister(r, "xr", "inc")
    [] f = "iny" -> onRegister(r, "yr", "inc")
    [] f = "dex" -> onRegister(r, "xr", "dec")
    [] f = "dey" -> onRegister(r, "yr", "dec")
    [] f = "aslA" -> onRegister(r, "ar", "asl")
    [] f = "lsrA" -> onRegister(r, "ar", "lsr")
    [] f = "rolA" -> onRegister(r, "ar", "rol")
    [] f = "rorA" -> onRegister(r, "ar", "ror")
    [] f \in {"and", "ora", "eor"} -> logic(r, f)
    [] f = "rmb" -> bitOp(r, g, FALSE) [] f = "smb" -> bitOp(r, g, TRUE)
    [] f = "trb" -> testBits(r, FALSE) [] f = "tsb" -> testBits(r, TRUE)
    [] f = "bit" -> bit(r) [] f = "bitI" -> bitI(r)
    [] f = "cmp" -> compare(r, r.ar, r.val)
    [] f = "cpx" -> compare(r, r.xr, r.val)
    [] f = "cpy" -> compare(r, r.yr, r.val)
    [] f = "brs" -> brx(r, g, TRUE) [] f = "brc" -> brx(r, g, FALSE)
    [] f = "bbr" -> bbx(r, g, FALSE) [] f = "bbs" -> bbx(r, g, TRUE)
    [] f = "tax" -> transfer(r, "ar", "xr")
    [] f = "txa" -> transfer(r, "xr", "ar")
    [] f = "tay" -> transfer(r, "ar", "yr")
    [] f = "tya" -> transfer(r, "yr", "ar")
    [] f = "tsx" -> transfer(r, "sp", "xr")
    [] f = "txs" -> transfer(r, "xr", "sp")
    [] f = "pha" -> push(r, r.ar) [] f = "phx" -> push(r, r.xr)
    [] f = "phy" -> push(r, r.yr) [] f = "php" -> push(r, Or(r.sr, B))
    [] f = "pla" -> pullRegister(pull(r), "ar")
    [] f = "plx" -> pullRegister(pull(r), "xr")
    [] f = "ply" -> pullRegister(pull(r), "yr")
    [] f = "plp" -> plp(r)
    [] f = "jmp" -> jmp(r) [] f = "jsr" -> jsr(r)
    [] f = "rts" -> rts(r) [] f = "rti" -> rti(r)
    [] f = "set" -> set(r, g) [] f = "clr" -> clr(r, g)
    [] f = "brk" -> brk(r)
    [] f = "stp" -> stp(r) [] f = "wai" -> wai(r)
    [] f = "aso" -> aso(r) [] f = "rla" -> rla(r)
    [] f = "lse" -> lse(r) [] f = "rra" -> rra(r)
    [] f = "lax" -> lax(r) [] f = "dcm" -> dcm(r) [] f = "ins" -> ins(r)
    [] f = "alr" -> alr(r) [] f = "arr" -> arr(r)
    [] f = "xaa" -> xaa(r) [] f = "oal" -> oal(r) [] f = "sax" -> sax(r)
    [] f = "tas" -> tas(r) [] f = "say" -> say(r)
    [] f = "xas" -> xas(r) [] f = "axa" -> axa(r)
    [] f = "anc" -> anc(r) [] f = "las" -> las(r)
    [] f = "hlt" -> hlt(r)

\* Runs the fn of an Instruction.
Exec(c, instr) == Finish(Operand(c, instr), instr.fn, instr.arg)

\* ------------------------------------------------------------------------
\* Step loop
\* ------------------------------------------------------------------------

\* A history entry that is not a page-handler call: "op" where an
\* instruction begins, "end" where its fn has returned, "cb" where the
\* callback is invoked.
Mark(c, kind) ==
  IF c.thrown THEN c
  ELSE [c EXCEPT !.log = Append(c.log, [k |-> kind, a |-> c.pc, v |-> 0,
                                        sync |-> c.sync, cyc |-> c.cycles])]

\* decode as it would be were sync left set while the instruction runs
decodeSyncHeld(c) ==
  IF c.thrown THEN c ELSE [c EXCEPT !.op = opary[c.val]]

\* this.op = this.opary[<the byte just read>]; this.sync = false
decode(c) ==
  IF c.thrown THEN c ELSE [c EXCEPT !.op = opary[c.val], !.sync = FALSE]

\* this.op.fn()
run(c) == IF c.thrown THEN c ELSE Mark(Exec(c, c.op), "end")

\* The body shared by step, stepN, stepCycles and stepCyclesDebug:
\*   this.sync = true; this.op = this.opary[this.readBytePC()];
\*   this.sync = false; this.op.fn();
\* An exception leaves the loop with the fields as they are.
stepOne(c) == run(decode(readBytePC(Mark([c EXCEPT !.sync = TRUE], "op"))))

\* A callback is an input: NoCallback when the argument is omitted, 0 when
\* it never returns true, k > 0 when its k-th invocation returns true.
NoCallback == 0 - 1

\* callbackStops as it would be were the callback's result dropped, as
\* step drops it
callbackIgnored(cb, calls) == FALSE

\* whether the calls-th invocation of cb returns true
callbackStops(cb, calls) == cb # NoCallback /\ cb = calls

\* cb?.(this)
invoke(c, cb) == IF cb = NoCallback THEN c ELSE Mark(c, "cb")

step(c, cb) == invoke(stepOne(c), cb)

\* the rest of stepN's loop once the body has run in r: `if (cb?.(this))
\* return;` and the next iteration
RECURSIVE stepNFrom(_, _, _, _)
stepNNext(r, idx, n, cb) ==
  IF callbackStops(cb, idx + 1) THEN r ELSE stepNFrom(r, idx + 1, n, cb)

stepNFrom(c, idx, n, cb) ==
  IF idx >= n \/ c.thrown THEN c ELSE stepNNext(step(c, cb), idx, n, cb)

\* stepN as it would be with the loop index starting at 1
stepNFromOne(c, n, cb) == stepNFrom(c, 1, n, cb)

stepN(c, n, cb) == stepNFrom(c, 0, n, cb)

RECURSIVE stepCyclesFrom(_, _, _, _)
stepCyclesNext(r, end, calls, cb) ==
  IF callbackStops(cb, calls + 1) THEN r
  ELSE stepCyclesFrom(r, end, calls + 1, cb)

stepCyclesFrom(c, end, calls, cb) ==
  IF ~(c.cycles < end) \/ c.thrown THEN c
  ELSE stepCyclesNext(step(c, cb), end, calls, cb)

\* stepCycles as it would be with `this.cycles <= end` as the loop's test
stepCyclesInclusive(c, n) == stepCyclesFrom(c, c.cycles + n + 1, 0, NoCallback)

stepCycles(c, n) == stepCyclesFrom(c, c.cycles + n, 0, NoCallback)

\* stepCyclesDebug as it would be with the loop's test after its body
stepCyclesDebugTestsLast(c, n, cb) ==
  stepCyclesNext(step(c, cb), c.cycles + n, 0, cb)

stepCyclesDebug(c, n, cb) == stepCyclesFrom(c, c.cycles + n, 0, cb)

\* ------------------------------------------------------------------------
\* Signals
\* ------------------------------------------------------------------------

\* reset as it would be with the commented-out `cycles = 0` in force
resetZeroesCycles(c) ==
  The({ [r EXCEPT !.pc = r.val, !.wait = FALSE, !.stop = FALSE]
      : r \in {readWord([c EXCEPT !.sr = X, !.sp = 255, !.ar = 0, !.yr = 0,
                  !.xr = 0, !.cycles = 0], RESET)} })

\* reset as it would be without `this.wait = false`
resetKeepsWait(c) ==
  The({ [r EXCEPT !.pc = r.val, !.stop = FALSE]
      : r \in {readWord([c EXCEPT !.sr = X, !.sp = 255, !.ar = 0, !.yr = 0,
                  !.xr = 0], RESET)} })

reset(c) ==
  The({ [r EXCEPT !.pc = r.val, !.wait = FALSE, !.stop = FALSE]
      : r \in {readWord([c EXCEPT !.sr = X, !.sp = 255, !.ar = 0, !.yr = 0,
                  !.xr = 0], RESET)} })

\* interrupt as it would be without `this.wait = false`
interruptKeepsWait(c, vector) ==
  The({ The({ The({ [r3 EXCEPT !.pc = r3.val]
                  : r3 \in {readWord(setFlag(IF is65C02 THEN setFlag(r2, D,
                               FALSE) ELSE r2, I, TRUE), vector)} })
            : r2 \in {pushByte(r1, And(r1.sr, Not(B)))} })
      : r1 \in {pushWord(c, c.pc)} })

\* interrupt as it would be were the stop latch cleared with the wait latch
interruptClearsStop(c, vector) ==
  The({ The({ The({ [r3 EXCEPT !.pc = r3.val, !.wait = FALSE, !.stop = FALSE]
                  : r3 \in {readWord(setFlag(IF is65C02 THEN setFlag(r2, D,
                               FALSE) ELSE r2, I, TRUE), vector)} })
            : r2 \in {pushByte(r1, And(r1.sr, Not(B)))} })
      : r1 \in {pushWord(c, c.pc)} })

\* interrupt as it would be were the status pushed after I is set
interruptPushesLate(c, vector) ==
  The({ The({ The({ [r3 EXCEPT !.pc = r3.val, !.wait = FALSE]
                  : r3 \in {readWord(r2, vector)} })
            : r2 \in {pushByte(r1, And(r1.sr, Not(B)))} })
      : r1 \in {setFlag(IF is65C02 THEN setFlag(pushWord(c, c.pc), D, FALSE)
                        ELSE pushWord(c, c.pc), I, TRUE)} })

\* the body shared by irq (when I is clear) and nmi
interrupt(c, vector) ==
  The({ The({ The({ [r3 EXCEPT !.pc = r3.val, !.wait = FALSE]
                  : r3 \in {readWord(setFlag(IF is65C02 THEN setFlag(r2, D,
                               FALSE) ELSE r2, I, TRUE), vector)} })
            : r2 \in {pushByte(r1, And(r1.sr, Not(B)))} })
      : r1 \in {pushWord(c, c.pc)} })

\* irq as it would be without the test of I
irqUnmasked(c) == interrupt(c, BRK)

irq(c) == IF And(c.sr, I) = 0 THEN interrupt(c, BRK) ELSE c

\* nmi as it would be were it masked by I as irq is
nmiMaskable(c) == IF And(c.sr, I) = 0 THEN interrupt(c, NMI) ELSE c

nmi(c) == interrupt(c, NMI)

\* for (idx = 0; idx < resetHandlers.length; idx++) resetHandlers[idx].reset():
\* the handlers whose reset() is invoked, in the order of the calls
resetAll(handlers) == [idx \in 1 .. Len(handlers) |-> handlers[idx]]

\* ------------------------------------------------------------------------
\* State
\* ------------------------------------------------------------------------

\* the CpuState getState returns
getState(c) ==
  [a |-> c.ar, x |-> c.xr, y |-> c.yr, s |-> c.sr, pc |-> c.pc, sp |-> c.sp,
   cycles |-> c.cycles]

\* setState as it would be were the cycle counter left out of it
setStateKeepsCycles(c, state) ==
  [c EXCEPT !.ar = state.a, !.xr = state.x, !.yr = state.y, !.sr = state.s,
            !.pc = state.pc, !.sp = state.sp]

setState(c, state) ==
  [c EXCEPT !.ar = state.a, !.xr = state.x, !.yr = state.y, !.sr = state.s,
            !.pc = state.pc, !.sp = state.sp, !.cycles = state.cycles]

\* ------------------------------------------------------------------------
\* Memory map
\* ------------------------------------------------------------------------

\* mapPages as it would be were the loop to stop before end()
mapPagesExclusive(pages, h) ==
  [p \in DOMAIN pages |->
     IF HandlerDefs[h].start <= p /\ p < HandlerDefs[h].end THEN h ELSE pages[p]]

\* for (idx = start(); idx <= end(); idx++) this.memPages[idx] = pageHandler
mapPages(pages, h) ==
  [p \in DOMAIN pages |->
     IF HandlerDefs[h].start <= p /\ p <= HandlerDefs[h].end THEN h ELSE pages[p]]

isResettablePageHandler(h) == HandlerDefs[h].resettable

\* if (isResettablePageHandler(pageHandler)) this.resetHandlers.push(pageHandler)
registerReset(handlers, h) ==
  IF isResettablePageHandler(h) THEN Append(handlers, h) ELSE handlers

\* ------------------------------------------------------------------------
\* Actions
\* ------------------------------------------------------------------------

\* The object as a method finds it.
Cur ==
  [pc |-> pc, sr |-> sr, ar |-> ar, xr |-> xr, yr |-> yr, sp |-> sp, op |-> op,
   addr |-> addr, cycles |-> cycles, sync |-> sync, wait |-> wait, stop |-> stop,
   mem |-> store, log |-> <<>>, fault |-> <<>>, thrown |-> FALSE, val |-> 0]

\* Registers, latches and memory when a call begins.
Snapshot ==
  [pc |-> pc, sr |-> sr, ar |-> ar, xr |-> xr, yr |-> yr, sp |-> sp,
   cycles |-> cycles, wait |-> wait, stop |-> stop, mem |-> store,
   pages |-> memPages]

\* A call, with the call made before it, the registers that one found and
\* the fn of the Instruction it left in this.op.
Call(name, arg, cb) ==
  [call |-> name, arg |-> arg, cb |-> cb,
   before |-> [call |-> last.call, fn |-> op.fn, pc |-> pre.pc, sr |-> pre.sr,
               ar |-> pre.ar, xr |-> pre.xr, yr |-> pre.yr, sp |-> pre.sp]]

\* The object as the method leaves it.
Commit(r, call) ==
  /\ pc' = r.pc /\ sr' = r.sr /\ ar' = r.ar /\ xr' = r.xr /\ yr' = r.yr
  /\ sp' = r.sp /\ op' = r.op /\ addr' = r.addr /\ cycles' = r.cycles
  /\ sync' = r.sync /\ wait' = r.wait /\ stop' = r.stop /\ store' = r.mem
  /\ log' = r.log /\ fault' = r.fault
  /\ last' = call
  /\ pre' = Snapshot

\* Bounds of the exploration
MaxN == 2
MaxBudget == 2
MaxCalls == 2

\* the callbacks tried with a loop of at most n instructions
Callbacks(n) == {NoCallback} \cup 0 .. n

\* The host makes one of the calls it has left.
Host == callsLeft > 0 /\ callsLeft' = callsLeft - 1

Step ==
  /\ Host
  /\ \E cb \in Callbacks(0) : Commit(step(Cur, cb), Call("step", 1, cb))
  /\ resetLog' = <<>>
  /\ UNCHANGED <<flavor, memPages, resetHandlers, added>>

StepN ==
  /\ Host
  /\ \E n \in 0 .. MaxN : \E cb \in Callbacks(n) :
       Commit(stepN(Cur, n, cb), Call("stepN", n, cb))
  /\ resetLog' = <<>>
  /\ UNCHANGED <<flavor, memPages, resetHandlers, added>>

StepCycles ==
  /\ Host
  /\ \E n \in (0 - 1) .. MaxBudget :
       Commit(stepCycles(Cur, n), Call("stepCycles", n, NoCallback))
  /\ resetLog' = <<>>
  /\ UNCHANGED <<flavor, memPages, resetHandlers, added>>

StepCyclesDebug ==
  /\ Host
  /\ \E n \in 0 .. MaxBudget : \E cb \in Callbacks(1) :
       Commit(stepCyclesDebug(Cur, n, cb), Call("stepCyclesDebug", n, cb))
  /\ resetLog' = <<>>
  /\ UNCHANGED <<flavor, memPages, resetHandlers, added>>

Reset ==
  /\ Host
  /\ Commit(reset(Cur), Call("reset", 0, NoCallback))
  /\ resetLog' = resetAll(resetHandlers)
  /\ UNCHANGED <<flavor, memPages, resetHandlers, added>>

Irq ==
  /\ Host
  /\ Commit(irq(Cur), Call("irq", 0, NoCallback))
  /\ resetLog' = <<>>
  /\ UNCHANGED <<flavor, memPages, resetHandlers, added>>

Nmi ==
  /\ Host
  /\ Commit(nmi(Cur), Call("nmi", 0, NoCallback))
  /\ resetLog' = <<>>
  /\ UNCHANGED <<flavor, memPages, resetHandlers, added>>

\* The values the host passes to setState, besides the one getState has
\* just returned: the first at the BRK of program area 1 with a counter
\* that is not zero, the second at the top of the address space.
StateSamples ==
  { [a |-> 1, x |-> 2, y |-> 3, s |-> 33, pc |-> ProgBase(1), sp |-> 128,
     cycles |-> 1000],
    [a |-> 255, x |-> 0, y |-> 128, s |-> 172, pc |-> 65535, sp |-> 0,
     cycles |-> 0] }

SetState ==
  /\ Host
  /\ \E s \in StateSamples \cup {getState(Cur)} :
       Commit(setState(Cur, s), Call("setState", s, NoCallback))
  /\ resetLog' = <<>>
  /\ UNCHANGED <<flavor, memPages, resetHandlers, added>>

\* Bound on the number of handlers added
MaxAdds == 3

AddPageHandler ==
  /\ Len(added) < MaxAdds
  /\ \E h \in Handlers :
       /\ memPages' = mapPages(memPages, h)
       /\ resetHandlers' = registerReset(resetHandlers, h)
       /\ added' = Append(added, h)
       /\ last' = Call("addPageHandler", h, NoCallback)
  /\ pre' = Snapshot
  /\ log' = <<>> /\ fault' = <<>> /\ resetLog' = <<>>
  /\ UNCHANGED <<flavor, pc, sr, ar, xr, yr, sp, op, addr, cycles, sync, wait,
                 stop, store, callsLeft>>

\* ------------------------------------------------------------------------
\* Initial states
\* ------------------------------------------------------------------------

\* A CPU as the constructor leaves it.
Constructed ==
  /\ flavor \in {fl \in FLAVORS : Constructs(fl)}
  /\ pc = 0 /\ sr = X /\ ar = 0 /\ xr = 0 /\ yr = 0 /\ sp = 255
  /\ op = Undefined /\ addr = 0
  /\ memPages = [p \in 0 .. PAGES - 1 |-> BLANK_PAGE]
  /\ resetHandlers = <<>>
  /\ cycles = 0 /\ sync = FALSE /\ wait = FALSE /\ stop = FALSE
  /\ store = <<>>
  /\ added = <<>>

\* Nothing has been called yet.
NoHistory ==
  /\ last = [call |-> "new", arg |-> 0, cb |-> NoCallback,
             before |-> [call |-> "none", fn |-> Undefined.fn, pc |-> 0,
                         sr |-> X, ar |-> 0, xr |-> 0, yr |-> 0, sp |-> 0]]
  /\ pre = Snapshot
  /\ log = <<>> /\ fault = <<>> /\ resetLog = <<>>

\* Start states the host sets with setState: a, x, y, s, sp of a CpuState
\* (s always has X set and B clear) and the program area v the pc is in.
Scenarios ==
  { [ar |-> 0, xr |-> 0, yr |-> 0, sr |-> 32, sp |-> 255, v |-> 1],
    [ar |-> 255, xr |-> 1, yr |-> 255, sr |-> 239, sp |-> 0, v |-> 2],
    [ar |-> 153, xr |-> 255, yr |-> 1, sr |-> 41, sp |-> 253, v |-> 1] }

\* the pc values of the start states: each opcode of the program area,
\* the ends of the address space, and the two pairs of instructions at
\* 0x0200 and 0x0202
PCSamples(v) ==
  {0, 512, 514, 516, 65535} \cup {ProgBase(v) + 3 * k : k \in 0 .. PAGES - 1}

\* A CPU after construction, addPageHandler(handler 1), the writes of
\* Preset and setState(s) for a sampled state s with cycles 0.
Loaded ==
  /\ flavor \in {fl \in FLAVORS : Constructs(fl)}
  /\ op = Undefined /\ addr = 0
  /\ memPages = mapPages([p \in 0 .. PAGES - 1 |-> BLANK_PAGE], 1)
  /\ resetHandlers = registerReset(<<>>, 1)
  /\ added = <<1>>
  /\ cycles = 0 /\ sync = FALSE /\ wait = FALSE /\ stop = FALSE
  /\ store = Preset

Start ==
  /\ Loaded
  /\ \E s \in Scenarios :
       /\ ar = s.ar /\ xr = s.xr /\ yr = s.yr /\ sr = s.sr /\ sp = s.sp
       /\ pc \in PCSamples(s.v)
  /\ NoHistory

\* One call of any method from each start state.
Init == Start /\ callsLeft = 1

Next ==
  \/ Step
  \/ StepN
  \/ StepCycles
  \/ StepCyclesDebug
  \/ Reset
  \/ Irq
  \/ Nmi

Spec == Init /\ [][Next]_vars

\* Sequences of MaxCalls calls, of single steps and signals.
InitSeq == Start /\ callsLeft = MaxCalls

NextSeq ==
  \/ Step
  \/ Reset
  \/ Irq
  \/ Nmi

SpecSeq == InitSeq /\ [][NextSeq]_vars

\* Sequences of MaxCalls calls in which the host also restores states.
InitState == Start /\ callsLeft = MaxCalls

NextState ==
  \/ Step
  \/ Reset
  \/ Irq
  \/ Nmi
  \/ SetState

SpecState == InitState /\ [][NextState]_vars

\* The memory map: a fresh CPU to which the host adds handlers.
InitMap == Constructed /\ callsLeft = MaxCalls /\ NoHistory

NextMap ==
  \/ AddPageHandler
  \/ Reset
  \/ Nmi

SpecMap == InitMap /\ [][NextMap]_vars

\* The arithmetic unit: the host has put ADC or SBC with an immediate
\* operand m at AluBase and set A, the carry and the decimal flag; the
\* CPU makes one step.
AluBase == 3 * PAGES

\* the nibbles tried: the ends and the middle of the decimal digits, and
\* two that are not decimal digits
AluNibbles == {0, 1, 5, 8, 9, 10, 15}

AluBytes == {16 * h + l : h, l \in AluNibbles}

AluOpcodes == {105, 233}

StartAlu ==
  /\ flavor \in {fl \in FLAVORS : Constructs(fl)}
  /\ op = Undefined /\ addr = 0
  /\ memPages = mapPages([p \in 0 .. PAGES - 1 |-> BLANK_PAGE], 1)
  /\ resetHandlers = registerReset(<<>>, 1)
  /\ added = <<1>>
  /\ cycles = 0 /\ sync = FALSE /\ wait = FALSE /\ stop = FALSE
  /\ \E opc \in AluOpcodes : \E m \in AluBytes :
       store = (<<1, AluBase>> :> opc) @@ (<<1, AluBase + 1>> :> m) @@ Preset
  /\ pc = AluBase /\ xr = 0 /\ yr = 0 /\ sp = 255
  /\ ar \in AluBytes
  /\ sr \in {X, X + C, X + D, X + D + C}
  /\ NoHistory

InitAlu == StartAlu /\ callsLeft = 1

NextAlu == Step

SpecAlu == InitAlu /\ [][NextAlu]_vars


\* ------------------------------------------------------------------------
\* Properties.  They read the history of the last call: `last` (the call),
\* `pre` (the object when it began) and `log` (the page-handler calls, and
\* the marks "op", "end" and "cb", in the order they happened).
\* ------------------------------------------------------------------------

\* e is a call of a page handler's read or write
IsAccess(e) == e.k \in {"r", "w"}

\* the number of page-handler calls among the first n entries of the log
AccessesIn(n) == Cardinality({j \in 1 .. n : IsAccess(log[j])})

\* the number of entries of the log that are marks of kind k
Marks(k) == Cardinality({j \in DOMAIN log : log[j].k = k})

\* the reads and the writes of the last call, in order
Reads == SelectSeq(log, LAMBDA e : e.k = "r")

Writes == SelectSeq(log, LAMBDA e : e.k = "w")

\* the last call was step() and fetched the opcode opc
Stepped(opc) == last.call = "step" /\ Len(log) >= 2 /\ log[2].v = opc

\* a - 1 and a + 1 modulo 256
Dec8(a) == (a + 255) % 256

Inc8(a) == (a + 1) % 256

\* v with the bit f cleared, v a byte
Without(v, f) == v - ((v \div f) % 2) * f

\* v with the bit f set, v a byte
With(v, f) == Without(v, f) + f

\* C1: the cycle counter advances by one at each page-handler call and at
\* nothing else: every entry of the log was made with the counter at its
\* value when the call began plus the number of handler calls before it
\* (so the counter's increase over an instruction, from its "op" mark to
\* its "end" mark, is the number of handler calls between them), the
\* counter ends at the start value plus the number of handler calls, and
\* that number is 2 for reset() and 5 for nmi() and for a taken irq().
C1_CyclesCountAccesses ==
  /\ \A i \in DOMAIN log : log[i].cyc = pre.cycles + AccessesIn(i - 1)
  /\ cycles = pre.cycles + AccessesIn(Len(log))
  /\ last.call = "reset" => AccessesIn(Len(log)) = 2
  /\ last.call = "nmi" \/ (last.call = "irq" /\ (pre.sr \div I) % 2 = 0)
       => AccessesIn(Len(log)) = 5

\* stepN(2, cb) has run two instructions, one of them writing, and the
\* callback after each
C1_TwoInstructionsCounted ==
  /\ last.call = "stepN" /\ last.arg = 2 /\ last.cb = 0
  /\ Marks("end") = 2 /\ Marks("cb") = 2
  /\ Len(Writes) > 0
  /\ cycles > pre.cycles + 4

\* C2: SYNC is high during exactly one handler call of each instruction,
\* the read of the opcode at the pc the instruction begins at, and low
\* during every other handler call, at the end of the instruction, in the
\* callback, when the method has returned, and throughout reset(), irq()
\* and nmi().
C2_SyncOnlyOnOpcodeFetch ==
  /\ ~sync
  /\ \A i \in DOMAIN log :
       CASE log[i].k = "op" ->
              /\ i < Len(log)
              /\ log[i + 1].k = "r" /\ log[i + 1].a = log[i].a
              /\ log[i + 1].sync
         [] IsAccess(log[i]) ->
              log[i].sync <=> (i > 1 /\ log[i - 1].k = "op")
         [] OTHER -> ~log[i].sync
  /\ last.call \in {"step", "stepN", "stepCycles", "stepCyclesDebug"}
       /\ log # <<>>
       => log[1].k = "op" /\ log[1].a = pre.pc
  /\ last.call \in {"reset", "irq", "nmi"}
       => \A i \in DOMAIN log : ~log[i].sync
  /\ Cardinality({i \in DOMAIN log : IsAccess(log[i]) /\ log[i].sync})
       = Marks("op")

\* stepCyclesDebug has run two instructions of more than one access, and
\* the callback after each
C2_TwoFetchesSeen ==
  /\ last.call = "stepCyclesDebug" /\ last.cb = 0
  /\ Marks("op") = 2 /\ Marks("end") = 2 /\ Marks("cb") = 2
  /\ AccessesIn(Len(log)) > 4

\* C3: the status register always has X set and B clear; the status byte
\* irq() and nmi() push has B clear, the one PHP (0x08) and BRK (0x00)
\* push has B set.
C3_StatusXSetBClear ==
  /\ (sr \div X) % 2 = 1
  /\ (sr \div B) % 2 = 0
  /\ last.call \in {"irq", "nmi"} /\ log # <<>>
       => Writes[3].v = Without(pre.sr, B)
  /\ Stepped(8) => Writes[1].v = With(pre.sr, B)
  /\ Stepped(0) => Writes[3].v = With(pre.sr, B)

\* PLP (0x28) has pulled a byte with B set and X clear
C3_PlpPulledBSet ==
  /\ Stepped(40)
  /\ (Reads[4].v \div B) % 2 = 1
  /\ (Reads[4].v \div X) % 2 = 0

\* C4: A, X, Y and SP are bytes and PC is a 16-bit word in every state.
\* SP wraps on the pushes of PHA (0x48) and PHP (0x08) and on the pulls of
\* PLA (0x68) and PLP (0x28); PC wraps after the fetch at 0xFFFF, on the
\* branch BNE (0xD0), on RTS (0x60) and on the rewind of HLT (0x02, NMOS).
C4_RegistersStayInRange ==
  /\ ar \in Byte /\ xr \in Byte /\ yr \in Byte /\ sp \in Byte
  /\ pc \in Word
  /\ Stepped(72) \/ Stepped(8) => sp = Dec8(pre.sp)
  /\ Stepped(104) \/ Stepped(40) => sp = Inc8(pre.sp)
  /\ Stepped(2) /\ pre.pc = 65535 /\ is65C02 => Reads[2].a = 0 /\ pc = 1
  /\ Stepped(2) /\ ~is65C02 => pc = pre.pc
  /\ Stepped(208) /\ (pre.sr \div Z) % 2 = 0
       => pc = (pre.pc + 2 + Reads[2].v
                  - (IF Reads[2].v > 127 THEN 256 ELSE 0)) % 65536
  /\ Stepped(96) => pc = (Reads[4].v + 256 * Reads[5].v + 1) % 65536

\* BNE at 0x0000 with offset -128 has been taken: the pc has wrapped below
\* zero
C4_BranchWrapped ==
  /\ Stepped(208) /\ pre.pc = 0
  /\ Reads[2].v = 128
  /\ pc = 65410

\* C5: every call of a page handler is made for a page in 0 .. 255, and no
\* access finds memPages without an entry for its page.
C5_AccessesReachHandlers ==
  /\ fault = <<>>
  /\ \A i \in DOMAIN log : IsAccess(log[i]) => log[i].a \div 256 \in 0 .. 255

\* What irq() (when taken) and nmi() do, vec the address of the vector:
\* PCH, PCL and P without B are written down the stack, the vector is read,
\* SP is three lower, I is set, D is cleared on the 65C02 only, wait is
\* cleared, five cycles pass, and nothing else changes.
Interrupted(vec) ==
  /\ Len(log) = 5
  /\ \A i \in 1 .. 3 : log[i].k = "w" /\ store[<<1, log[i].a>>] = log[i].v
  /\ \A i \in 4 .. 5 : log[i].k = "r"
  /\ log[1].a = 256 + pre.sp /\ log[1].v = pre.pc \div 256
  /\ log[2].a = 256 + Dec8(pre.sp) /\ log[2].v = pre.pc % 256
  /\ log[3].a = 256 + Dec8(Dec8(pre.sp)) /\ log[3].v = Without(pre.sr, B)
  /\ log[4].a = vec /\ log[5].a = vec + 1
  /\ sp = Dec8(Dec8(Dec8(pre.sp)))
  /\ sr = IF is65C02 THEN Without(With(pre.sr, I), D) ELSE With(pre.sr, I)
  /\ pc = log[4].v + 256 * log[5].v
  /\ cycles = pre.cycles + 5
  /\ ~wait
  /\ ar = pre.ar /\ xr = pre.xr /\ yr = pre.yr /\ stop = pre.stop

\* C6: irq() with I clear pushes PCH, PCL and P with B clear (I still
\* clear), lowers SP by 3, sets I, loads PC from 0xFFFE/0xFFFF, takes 5
\* cycles, clears wait, and clears D on the 65C02 and not on the 6502.
C6_IrqTaken ==
  last.call = "irq" /\ (pre.sr \div I) % 2 = 0
    => Interrupted(BRK) /\ (log[3].v \div I) % 2 = 0

\* irq() has been taken by a CPU waiting after WAI, with D set
C6_IrqWhileWaiting ==
  /\ last.call = "irq" /\ (pre.sr \div I) % 2 = 0
  /\ pre.wait /\ (pre.sr \div D) % 2 = 1
  /\ log # <<>>

\* C7: irq() with I set changes no register, latch, counter or memory
\* byte and calls no page handler.
C7_IrqMaskedIsNoOp ==
  last.call = "irq" /\ (pre.sr \div I) % 2 = 1
    => Snapshot = pre /\ log = <<>>

\* irq() has been called with I set, after an instruction of two cycles
C7_IrqAfterSei ==
  /\ last.call = "irq" /\ (pre.sr \div I) % 2 = 1
  /\ pre.cycles = 2
  /\ pc = pre.pc

\* C8: nmi() does what a taken irq() does, with the vector at
\* 0xFFFA/0xFFFB, whatever I is.
C8_NmiAlwaysTaken == last.call = "nmi" => Interrupted(NMI)

\* nmi() has been taken with I set by a CPU waiting after WAI
C8_NmiWhileMasked ==
  /\ last.call = "nmi" /\ (pre.sr \div I) % 2 = 1
  /\ pre.wait
  /\ Len(log) = 5

\* C9: reset() leaves P = X, SP = 0xFF, A = X = Y = 0, PC read from
\* 0xFFFC/0xFFFD, wait and stop clear, and the cycle counter 2 higher than
\* it was.
C9_ResetState ==
  last.call = "reset" =>
    /\ sr = X /\ sp = 255 /\ ar = 0 /\ xr = 0 /\ yr = 0
    /\ Len(log) = 2
    /\ log[1].k = "r" /\ log[1].a = RESET
    /\ log[2].k = "r" /\ log[2].a = RESET + 1
    /\ pc = log[1].v + 256 * log[2].v
    /\ ~wait /\ ~stop
    /\ cycles = pre.cycles + 2
    /\ store = pre.mem

\* reset() has been called on a stopped CPU whose counter was not zero
C9_ResetWhileStopped ==
  /\ last.call = "reset"
  /\ pre.stop /\ pre.cycles > 0
  /\ ~stop /\ cycles > 2

\* C10: the reset registry holds each handler at most once, and one reset()
\* invokes each handler's reset() at most once.
C10_RegistryHoldsEachOnce ==
  /\ \A i, j \in DOMAIN resetHandlers :
       i # j => resetHandlers[i] # resetHandlers[j]
  /\ \A i, j \in DOMAIN resetLog : i # j => resetLog[i] # resetLog[j]

\* the registers other than the pc, and the memory, are as the call found
\* them
RegistersKept ==
  /\ ar = pre.ar /\ xr = pre.xr /\ yr = pre.yr /\ sp = pre.sp /\ sr = pre.sr
  /\ store = pre.mem

\* C11: a step() made while wait is set executes no instruction and leaves
\* the pc, the registers and the memory as they were.
C11_WaitingStepIsNoOp ==
  last.call = "step" /\ pre.wait
    => pc = pre.pc /\ RegistersKept /\ Marks("end") = 0

\* C12 as stated: reset(), irq() and nmi(), called while wait is set,
\* return with wait clear whatever P is.
C12_SignalsClearWait ==
  last.call \in {"reset", "irq", "nmi"} /\ pre.wait => ~wait

\* C12, amended: reset() and nmi(), called while wait is set, return with
\* wait clear whatever P is; irq() returns with wait clear when I was
\* clear, and with wait still set when I was set.
C12_TakenSignalsClearWait ==
  /\ last.call \in {"reset", "nmi"} /\ pre.wait => ~wait
  /\ last.call = "irq" /\ pre.wait => (wait <=> (pre.sr \div I) % 2 = 1)

\* reset() has been called with wait and I set, and has cleared both
C12_ResetWhileWaiting ==
  /\ last.call = "reset"
  /\ pre.wait /\ (pre.sr \div I) % 2 = 1
  /\ ~wait /\ sr = X

\* C13: STP (0xDB) on the WDC 65C02 sets stop; a call other than reset()
\* made while stop is set returns with stop set; reset() returns with
\* stop clear.
C13_StopLatched ==
  /\ Stepped(219) /\ flavor = FLAVOR_WDC_65C02 => stop
  /\ pre.stop /\ last.call # "reset" => stop
  /\ last.call = "reset" => ~stop

\* setState has restored the counter of a stopped CPU, which is stopped
\* still
C13_SetStateWhileStopped ==
  /\ last.call = "setState"
  /\ pre.stop /\ stop
  /\ cycles # pre.cycles

\* the opcodes C14 lists
HltOpcodes == {2, 18, 34, 50, 66, 82, 98, 114, 146, 178, 210, 242}

\* C14: the opcodes of the NMOS 6502 that run hlt are the twelve listed,
\* and a step() of one of them sets stop, leaves the pc at the opcode, and
\* leaves A, X, Y, SP, P and the memory as they were.
C14_HltStopsInPlace ==
  /\ \A b \in 0 .. PAGES - 1 :
       OPARY[FLAVOR_6502][b].fn = "hlt" <=> b \in HltOpcodes
  /\ flavor = FLAVOR_6502 /\ last.call = "step" /\ Len(log) >= 2
       /\ log[2].v \in HltOpcodes
       => stop /\ pc = pre.pc /\ RegistersKept

\* the HLT at 0xFFFF has been stepped: the pc is 0xFFFF again
C14_HltAtTopOfMemory ==
  /\ flavor = FLAVOR_6502 /\ Stepped(2)
  /\ pre.pc = 65535 /\ pc = 65535
  /\ stop /\ ~pre.stop

\* the callback, when there is one, is invoked right after each
\* instruction, and nothing else is
CallbackAfterEach ==
  /\ Marks("op") = Marks("end")
  /\ Marks("cb") = (IF last.cb = NoCallback THEN 0 ELSE Marks("end"))
  /\ \A i \in DOMAIN log :
       log[i].k = "cb" => i > 1 /\ log[i - 1].k = "end"

\* C15: a stepN(n, cb) that returns has executed n instructions when cb is
\* omitted or never returns true, with cb invoked after each when given;
\* when cb returns true at its k-th invocation, k <= n, it has executed k
\* instructions and invoked cb k times, the last thing it did.  A
\* stepCyclesDebug(budget, cb) that returns has stopped at the k-th
\* invocation likewise, if it got that far, whatever is left of the
\* budget, and has used the budget up otherwise.
C15_CallbackHaltsLoop ==
  /\ last.call = "stepN" /\ fault = <<>> =>
       /\ CallbackAfterEach
       /\ Marks("end") = (IF last.cb > 0 THEN last.cb ELSE last.arg)
       /\ last.cb > 0 => log[Len(log)].k = "cb"
  /\ last.call = "stepCyclesDebug" /\ fault = <<>> =>
       /\ CallbackAfterEach
       /\ Marks("end") <= (IF last.cb > 0 THEN last.cb ELSE Len(log))
       /\ IF last.cb > 0 /\ Marks("end") = last.cb
          THEN log[Len(log)].k = "cb"
          ELSE cycles >= pre.cycles + last.arg

\* stepCyclesDebug(2, cb) has been halted by cb after one instruction of
\* one cycle, the budget not reached
C15_DebugHaltedEarly ==
  /\ last.call = "stepCyclesDebug" /\ last.arg = 2 /\ last.cb = 1
  /\ Marks("end") = 1 /\ Marks("cb") = 1
  /\ cycles = pre.cycles + 1

\* C16: a stepCycles(budget) that returns has advanced the counter by
\* budget at least, began each instruction it executed with the counter
\* below start + budget, invoked no callback, and executed nothing and
\* changed nothing when budget <= 0.
C16_StepCyclesReachesBudget ==
  last.call = "stepCycles" /\ fault = <<>> =>
    /\ cycles - pre.cycles >= last.arg
    /\ Marks("op") = Marks("end") /\ Marks("cb") = 0
    /\ \A i \in DOMAIN log :
         log[i].k = "op" => log[i].cyc < pre.cycles + last.arg
    /\ last.arg <= 0 => log = <<>> /\ Snapshot = pre

\* stepCycles(2) has executed an instruction of one cycle and then one of
\* more than one: the counter is past the budget
C16_BudgetOvershot ==
  /\ last.call = "stepCycles" /\ last.arg = 2
  /\ Marks("end") = 2
  /\ cycles > pre.cycles + 2

\* the object as the first call made on it found it
Entered ==
  [pc |-> pre.pc, sr |-> pre.sr, ar |-> pre.ar, xr |-> pre.xr, yr |-> pre.yr,
   sp |-> pre.sp, op |-> Undefined, addr |-> 0, cycles |-> pre.cycles,
   sync |-> FALSE, wait |-> pre.wait, stop |-> pre.stop, mem |-> pre.mem,
   log |-> <<>>, fault |-> <<>>, thrown |-> FALSE, val |-> 0]

\* n calls of step() in a row, up to one that throws
RECURSIVE Steps(_, _)
Steps(c, n) ==
  IF n = 0 \/ c.thrown THEN c ELSE Steps(step(c, NoCallback), n - 1)

\* the registers, latches and memory of the frame c
SnapshotOf(c) ==
  [pc |-> c.pc, sr |-> c.sr, ar |-> c.ar, xr |-> c.xr, yr |-> c.yr,
   sp |-> c.sp, cycles |-> c.cycles, wait |-> c.wait, stop |-> c.stop,
   mem |-> c.mem, pages |-> memPages]

\* C17: stepN(n) leaves the registers, the pc, the cycle counter, the
\* latches and the memory as n calls of step() in a row from the same
\* state leave them.
C17_StepNIsNSteps ==
  last.call = "stepN" /\ last.cb \in {NoCallback, 0}
    => Snapshot = SnapshotOf(Steps(Entered, last.arg))

\* stepN(2) has executed two instructions, the first of which wrote the
\* memory
C17_TwoStepsInOne ==
  /\ last.call = "stepN" /\ last.arg = 2 /\ last.cb = NoCallback
  /\ Marks("end") = 2
  /\ store # pre.mem
  /\ log[3].k = "w" \/ log[4].k = "w" \/ log[5].k = "w"

\* the CpuState getState returned when the last call began
EnteredState ==
  [a |-> pre.ar, x |-> pre.xr, y |-> pre.yr, s |-> pre.sr, pc |-> pre.pc,
   sp |-> pre.sp, cycles |-> pre.cycles]

\* C18: after setState(s), getState() returns s, and wait, stop and the
\* memory are as they were; after setState(getState()) everything is.
C18_StateRoundTrip ==
  last.call = "setState" =>
    /\ getState(Cur) = last.arg
    /\ wait = pre.wait /\ stop = pre.stop /\ store = pre.mem
    /\ last.arg = EnteredState => Snapshot = pre

\* setState has replaced the state of a CPU that had run WAI by one with
\* another counter
C18_StateReplacedWhileWaiting ==
  /\ last.call = "setState"
  /\ pre.wait /\ wait
  /\ pre.cycles = 3 /\ cycles = 1000
  /\ pc # pre.pc

\* C19: BRK (0x00) reads the opcode and the byte after it, writes PCH and
\* PCL of the BRK's address + 2 and then P with B set down the stack, reads
\* the pc from 0xFFFE/0xFFFF, in 7 cycles; SP is 3 lower; P has I set, B
\* still clear, and D cleared on the 65C02 only; A, X and Y are as they
\* were.
C19_BrkPushesAndVectors ==
  Stepped(0) =>
    /\ [i \in 1 .. 7 |-> log[i + 1].k]
         = <<"r", "r", "w", "w", "w", "r", "r">>
    /\ Len(Reads) = 4 /\ Len(Writes) = 3
    /\ Reads[1].a = pre.pc /\ Reads[2].a = (pre.pc + 1) % 65536
    /\ Writes[1].a = 256 + pre.sp
    /\ Writes[1].v = ((pre.pc + 2) % 65536) \div 256
    /\ Writes[2].a = 256 + Dec8(pre.sp)
    /\ Writes[2].v = (pre.pc + 2) % 256
    /\ Writes[3].a = 256 + Dec8(Dec8(pre.sp))
    /\ Writes[3].v = With(pre.sr, B)
    /\ Reads[3].a = BRK /\ Reads[4].a = BRK + 1
    /\ pc = Reads[3].v + 256 * Reads[4].v
    /\ sp = Dec8(Dec8(Dec8(pre.sp)))
    /\ sr = (IF is65C02 THEN Without(With(pre.sr, I), D)
             ELSE With(pre.sr, I))
    /\ (sr \div B) % 2 = 0
    /\ cycles = pre.cycles + 7
    /\ ar = pre.ar /\ xr = pre.xr /\ yr = pre.yr

\* BRK has been stepped on a 65C02 with D set and I clear
C19_BrkInDecimalMode ==
  /\ Stepped(0) /\ is65C02
  /\ (pre.sr \div D) % 2 = 1 /\ (pre.sr \div I) % 2 = 0
  /\ (sr \div D) % 2 = 0 /\ (sr \div I) % 2 = 1

\* C20: RTI (0x40) pulls P, taking X as set and B as clear whatever the
\* byte, then PCL and PCH, and sets the pc to the word pulled; SP is 3
\* higher modulo 256, after 6 cycles, with nothing written.  RTS (0x60)
\* sets the pc to the word it pulls plus 1 modulo 65536, with SP 2 higher
\* and P as it was.
C20_RtiPullsStatusThenPc ==
  /\ Stepped(64) =>
       /\ Len(Reads) = 6 /\ Writes = <<>>
       /\ Reads[4].a = 256 + Inc8(pre.sp)
       /\ Reads[5].a = 256 + Inc8(Inc8(pre.sp))
       /\ Reads[6].a = 256 + Inc8(Inc8(Inc8(pre.sp)))
       /\ sr = With(Without(Reads[4].v, B), X)
       /\ pc = Reads[5].v + 256 * Reads[6].v
       /\ sp = Inc8(Inc8(Inc8(pre.sp)))
       /\ cycles = pre.cycles + 6
       /\ ar = pre.ar /\ xr = pre.xr /\ yr = pre.yr
  /\ Stepped(96) =>
       /\ Reads[4].a = 256 + Inc8(pre.sp)
       /\ Reads[5].a = 256 + Inc8(Inc8(pre.sp))
       /\ pc = (Reads[4].v + 256 * Reads[5].v + 1) % 65536
       /\ sp = Inc8(Inc8(pre.sp))
       /\ sr = pre.sr

\* RTI has pulled, with SP wrapping from 0xFF, a status byte with B set and
\* X clear, and the word 0xFFFF
C20_RtiPulledBSet ==
  /\ Stepped(64) /\ pre.sp = 255
  /\ (Reads[4].v \div B) % 2 = 1 /\ (Reads[4].v \div X) % 2 = 0
  /\ pc = 65535 /\ sp = 2

\* the opcode fetches of the last call, in order
Fetches == SelectSeq(log, LAMBDA e : e.k = "r" /\ e.sync)

\* the last call has executed the opcodes first and second, and no more
Ran(first, second) ==
  /\ last.call = "stepN" /\ fault = <<>>
  /\ Marks("end") = 2 /\ Len(Fetches) = 2
  /\ Fetches[1].v = first /\ Fetches[2].v = second

\* v with N and Z set from the byte a
WithNZ(v, a) ==
  CASE a = 0 -> With(Without(v, N), Z)
    [] a > 127 -> With(Without(v, Z), N)
    [] OTHER -> Without(Without(v, N), Z)

\* C21: JSR (0x20) at address P reads its operand's low byte, writes the
\* high and then the low byte of P + 2 down the stack, reads the operand's
\* high byte and jumps to the operand, in 6 cycles, with SP 2 lower (modulo
\* 256) and A, X, Y and P as they were; JSR followed at once by RTS (0x60)
\* leaves SP as it was and the pc at P + 3.
C21_JsrThenRts ==
  /\ Stepped(32) =>
       /\ Len(Reads) = 4 /\ Len(Writes) = 2
       /\ Reads[2].a = (pre.pc + 1) % 65536
       /\ Reads[4].a = (pre.pc + 2) % 65536
       /\ Writes[1].a = 256 + pre.sp
       /\ Writes[1].v = ((pre.pc + 2) % 65536) \div 256
       /\ Writes[2].a = 256 + Dec8(pre.sp)
       /\ Writes[2].v = (pre.pc + 2) % 256
       /\ pc = Reads[2].v + 256 * Reads[4].v
       /\ sp = Dec8(Dec8(pre.sp))
       /\ cycles = pre.cycles + 6
       /\ ar = pre.ar /\ xr = pre.xr /\ yr = pre.yr /\ sr = pre.sr
  /\ Ran(32, 96) =>
       /\ pc = (pre.pc + 3) % 65536
       /\ sp = pre.sp
       /\ cycles = pre.cycles + 12

\* JSR $0180 and the RTS there have run with SP = 0x00: the return address
\* went to 0x0100 and 0x01FF
C21_JsrRtsAcrossStackWrap ==
  /\ Ran(32, 96)
  /\ pre.sp = 0 /\ sp = 0
  /\ Writes[1].a = 256 /\ Writes[2].a = 511
  /\ pc = pre.pc + 3

\* C22: PHA (0x48) followed by PLA (0x68) leaves A and SP as they were and
\* P with N and Z set from A; PHP (0x08) followed by PLP (0x28) writes P
\* with B and X set and leaves SP as it was and P with B clear and X set,
\* the other flags as they were.
C22_PushThenPull ==
  /\ Ran(72, 104) =>
       /\ ar = pre.ar /\ sp = pre.sp
       /\ sr = WithNZ(pre.sr, pre.ar)
       /\ Writes[1].v = pre.ar
  /\ Ran(8, 40) =>
       /\ sp = pre.sp
       /\ Writes[1].v = With(With(pre.sr, B), X)
       /\ sr = With(Without(pre.sr, B), X)
       /\ ar = pre.ar

\* PHA; PLA have run with A = 0 and Z clear: Z is set now
C22_PlaSetZero ==
  /\ Ran(72, 104)
  /\ pre.ar = 0 /\ (pre.sr \div Z) % 2 = 0
  /\ (sr \div Z) % 2 = 1

\* the pointer operand of the JMP (abs) just stepped
Pointer == Reads[2].v + 256 * Reads[3].v

\* C23: JMP (abs) (0x6C) with pointer A reads the target's low byte at A;
\* on the NMOS 6502 it reads the high byte at (A & 0xFF00) | ((A+1) & 0xFF)
\* and takes 5 cycles; on the 65C02 flavors it reads the high byte at A + 1
\* and takes 6 cycles, for every pointer.
C23_IndirectJump ==
  Stepped(108) =>
    IF is65C02
    THEN /\ Len(Reads) = 6 /\ Len(Writes) = 0
         /\ Reads[4].a = Pointer
         /\ Reads[5].a = (Pointer + 1) % 65536
         /\ pc = Reads[4].v + 256 * Reads[5].v
         /\ cycles = pre.cycles + 6
    ELSE /\ Len(Reads) = 5 /\ Len(Writes) = 0
         /\ Reads[4].a = Pointer
         /\ Reads[5].a = (Pointer \div 256) * 256 + ((Pointer + 1) % 256)
         /\ pc = Reads[4].v + 256 * Reads[5].v
         /\ cycles = pre.cycles + 5

\* page p lies in the range handler h gives with start() and end()
Covers(h, p) == HandlerDefs[h].start <= p /\ p <= HandlerDefs[h].end

\* the handler added last among those whose range holds page p, or
\* BLANK_PAGE when none does
Serving(p) ==
  IF \E i \in DOMAIN added : Covers(added[i], p)
  THEN added[CHOOSE i \in DOMAIN added :
               /\ Covers(added[i], p)
               /\ \A j \in DOMAIN added : Covers(added[j], p) => j <= i]
  ELSE BLANK_PAGE

\* C24: each page is served by the handler added last among those whose
\* range start()..end(), both ends included, holds it; a page in no range
\* reads 0 and a write to it changes nothing; addPageHandler leaves the
\* pages outside the new handler's range mapped as they were.
C24_LatestHandlerServes ==
  /\ \A p \in 0 .. PAGES - 1 : memPages[p] = Serving(p)
  /\ \A i \in DOMAIN log :
       IsAccess(log[i]) /\ Serving(log[i].a \div 256) = BLANK_PAGE
         => (log[i].k = "r" => log[i].v = 0)
  /\ (\A i \in DOMAIN log :
        IsAccess(log[i]) /\ log[i].k = "w"
          => Serving(log[i].a \div 256) = BLANK_PAGE)
       => store = pre.mem
  /\ last.call = "addPageHandler" =>
       \A p \in 0 .. PAGES - 1 :
         ~Covers(last.arg, p) => memPages[p] = pre.pages[p]

\* handler 3 (pages 2..4) was added after handler 2 (pages 0..3): pages 2
\* and 3 went over to it, pages 0 and 1 stayed, and reset() read the vector
\* on page 255, which no handler covers, as 0
C24_OverlapAndBlankVector ==
  /\ added = <<2, 3>> /\ last.call = "reset"
  /\ memPages[1] = 2 /\ memPages[2] = 3 /\ memPages[3] = 3 /\ memPages[4] = 3
  /\ memPages[255] = BLANK_PAGE
  /\ Len(Reads) = 2 /\ Reads[1].a = RESET /\ Reads[1].v = 0
  /\ pc = 0

\* the constructor fails for a flavor exactly when the flavor is not a
\* 65C02 and its table leaves an opcode unset, and it does not fail for
\* the NMOS 6502, whose table has every opcode
ConstructionFailsOnlyOnGap ==
  /\ Constructs(FLAVOR_6502)
  /\ DOMAIN ops(FLAVOR_6502) = 0 .. PAGES - 1
  /\ \A fl \in FLAVORS :
       ~Constructs(fl)
         <=> fl \notin FLAVORS_65C02 /\ DOMAIN ops(fl) # 0 .. PAGES - 1

\* C25: a CPU of the NMOS 6502 flavor is constructed without the error
\* `Missing xx`: OPS_6502 overlaid with OPS_NMOS_6502 has an Instruction for
\* every opcode 0x00..0xFF, and the constructor fails for a flavor exactly
\* when the flavor is not a 65C02 and its table leaves an opcode unset.
C25_NmosTableComplete ==
  /\ ConstructionFailsOnlyOnGap
  /\ flavor = FLAVOR_6502 => op.fn # "missing"

\* a CPU of the NMOS flavor was constructed and has run LAX, which only
\* OPS_NMOS_6502 defines
C25_NmosRanUndocumented ==
  /\ flavor = FLAVOR_6502
  /\ last.call = "step" /\ op.name = "LAX" /\ fault = <<>>
  /\ ar = xr

\* the opcodes the table composed for each flavor leaves unset
Unset == [fl \in FLAVORS |-> (0 .. PAGES - 1) \ DOMAIN ops(fl)]

\* C26: on the 65C02 flavors a step() of an opcode that no table defines
\* is an implied NOP: the opcode fetch is its only access, it takes 1
\* cycle, the pc moves on by 1, and the registers, the flags, the wait and
\* stop latches and the memory stay as they were.
C26_UnsetOpcodeIsOneCycleNop ==
  is65C02 /\ last.call = "step" /\ Len(log) >= 2 /\ log[2].v \in Unset[flavor]
    => /\ op.name = "NOP" /\ op.mode = "implied"
       /\ Len(Reads) = 1 /\ Len(Writes) = 0
       /\ Reads[1].a = pre.pc
       /\ cycles = pre.cycles + 1
       /\ pc = (pre.pc + 1) % 65536
       /\ RegistersKept
       /\ wait = pre.wait /\ stop = pre.stop

\* the WDC 65C02 has stepped opcode 0x03, which no table defines
C26_WdcSteppedUnset ==
  /\ flavor = FLAVOR_WDC_65C02
  /\ Stepped(3) /\ 3 \in Unset[flavor]
  /\ cycles = pre.cycles + 1 /\ pc = pre.pc + 1

\* the instruction just stepped takes its operand through (zp),Y
ThroughZeroPage ==
  op.arg \in {"readZeroPageIndirectY", "writeZeroPageIndirectY"}

\* the accesses that fetch the opcode and the base address of the indexed
\* instruction just stepped
BaseReads == IF ThroughZeroPage THEN 4 ELSE 3

\* the base address of the indexed instruction just stepped, its index and
\* the address it reaches
Base == Reads[BaseReads - 1].v + 256 * Reads[BaseReads].v

Index ==
  IF op.arg \in {"readAbsoluteX", "writeAbsoluteX", "readAddrAbsoluteX"}
  THEN pre.xr ELSE pre.yr

Indexed == (Base + Index) % 65536

PageCrossed == Base \div 256 # Indexed \div 256

\* ADC and SBC in decimal mode take one more cycle on the 65C02
DecimalCycle ==
  IF is65C02 /\ op.fn \in {"adc", "sbc"} /\ (pre.sr \div D) % 2 = 1
  THEN 1 ELSE 0

SteppedIndexedRead ==
  /\ last.call = "step" /\ fault = <<>>
  /\ op.fn \in {"lda", "ldx", "ldy", "adc", "sbc", "and", "ora", "eor",
                 "cmp", "bit", "lax", "las"}
  /\ op.arg \in {"readAbsoluteX", "readAbsoluteY", "readZeroPageIndirectY"}

SteppedIndexedStore ==
  /\ last.call = "step" /\ fault = <<>>
  /\ op.fn \in {"sta", "stz"}
  /\ op.arg \in {"writeAbsoluteX", "writeAbsoluteY", "writeZeroPageIndirectY"}

\* C27: an instruction that reads through abs,X, abs,Y or (zp),Y takes one
\* cycle more when the index carries into the high byte of the address
\* than when it does not, the extra access on the NMOS 6502 being a read
\* of (old page | new low byte); a store through the same modes takes the
\* same number of cycles either way.
C27_PageCrossCostsReadsOnly ==
  /\ SteppedIndexedRead =>
       /\ Len(Writes) = 0
       /\ cycles = pre.cycles + BaseReads + 1 + DecimalCycle
                     + (IF PageCrossed THEN 1 ELSE 0)
       /\ Reads[BaseReads + (IF PageCrossed THEN 2 ELSE 1)].a = Indexed
       /\ PageCrossed /\ ~is65C02
            => Reads[BaseReads + 1].a = (Base \div 256) * 256 + (Indexed % 256)
  /\ SteppedIndexedStore =>
       /\ Len(Writes) = 1 /\ Writes[1].a = Indexed
       /\ cycles = pre.cycles + BaseReads + 2

\* the NMOS 6502 has stepped LDA $FFFF,X with X = 0xFF: it read 0xFFFE and
\* then the operand at 0x00FE, in 5 cycles
C27_LdaCrossedOnNmos ==
  /\ ~is65C02 /\ Stepped(189) /\ SteppedIndexedRead
  /\ Base = 65535 /\ Index = 255 /\ PageCrossed
  /\ Reads[4].a = 65534 /\ Reads[5].a = 254
  /\ cycles = pre.cycles + 5

SteppedBranch ==
  last.call = "step" /\ fault = <<>> /\ op.fn \in {"brs", "brc"}

\* the address of the instruction after the branch just stepped
NextInstruction == (pre.pc + 2) % 65536

\* NextInstruction plus the operand byte taken as a signed number
BranchTargetOf(off) ==
  (NextInstruction + 65536 + (IF off > 127 THEN off - 256 ELSE off)) % 65536

\* brs branches when a flag of its mask is set, brc when none is; BRA is
\* brc with an empty mask
BranchTaken ==
  (op.arg # 0 /\ (pre.sr \div op.arg) % 2 = 1) = (op.fn = "brs")

\* C28: a branch (BPL, BMI, BVC, BVS, BCC, BCS, BNE, BEQ, and BRA on the
\* 65C02) that is not taken takes 2 cycles and leaves the pc at the next
\* instruction; one that is taken sets the pc to the next instruction's
\* address plus the sign-extended operand, modulo 65536, in 3 cycles when
\* that is in the page of the next instruction and in 4 when it is not.
C28_BranchCycles ==
  SteppedBranch =>
    IF BranchTaken
    THEN /\ pc = BranchTargetOf(Reads[2].v)
         /\ cycles = pre.cycles
                       + (IF pc \div 256 = NextInstruction \div 256 THEN 3 ELSE 4)
    ELSE /\ pc = NextInstruction
         /\ cycles = pre.cycles + 2

\* the 65C02 has stepped BRA with operand 0x80 and Z set: the pc is 128
\* below the next instruction, in its page, after 3 cycles
C28_BraTakenInPage ==
  /\ is65C02 /\ Stepped(128) /\ SteppedBranch /\ op.name = "BRA"
  /\ Reads[2].v = 128
  /\ pc = NextInstruction - 128
  /\ cycles = pre.cycles + 3

\* the reads and writes of the last call, in order
Touches == SelectSeq(log, IsAccess)

SteppedReadModifyWrite ==
  /\ last.call = "step" /\ fault = <<>>
  /\ op.fn \in {"inc", "dec", "asl", "lsr", "rol", "ror",
                 "aso", "rla", "lse", "rra", "dcm", "ins"}

\* what the instruction just stepped makes of the byte old, the carry
\* being as the call found it
Modified(old) ==
  CASE op.fn \in {"inc", "ins"} -> (old + 1) % 256
    [] op.fn \in {"dec", "dcm"} -> (old + 255) % 256
    [] op.fn \in {"asl", "aso"} -> (2 * old) % 256
    [] op.fn \in {"lsr", "lse"} -> old \div 2
    [] op.fn \in {"rol", "rla"} -> (2 * old + (pre.sr % 2)) % 256
    [] op.fn \in {"ror", "rra"} -> old \div 2 + 128 * (pre.sr % 2)

\* C29: a read-modify-write instruction on memory (INC, DEC, ASL, LSR,
\* ROL, ROR and the NMOS combinations built on them) ends with three
\* accesses to the same address: a read of the old value, then on the NMOS
\* 6502 a write of the old value and on the 65C02 a read, then the write
\* of the result; the byte is written twice on the NMOS 6502 and once on
\* the 65C02, and the result is the same function of the old value.
C29_ReadModifyWriteWorkCycle ==
  SteppedReadModifyWrite =>
    /\ Len(Touches) >= 4
    /\ Len(Writes) = (IF is65C02 THEN 1 ELSE 2)
    /\ Touches[Len(Touches) - 2].k = "r"
    /\ Touches[Len(Touches) - 1].a = Touches[Len(Touches) - 2].a
    /\ Touches[Len(Touches) - 1].k = (IF is65C02 THEN "r" ELSE "w")
    /\ Touches[Len(Touches) - 1].v = Touches[Len(Touches) - 2].v
    /\ Touches[Len(Touches)].k = "w"
    /\ Touches[Len(Touches)].a = Touches[Len(Touches) - 2].a
    /\ Touches[Len(Touches)].v = Modified(Touches[Len(Touches) - 2].v)

\* the NMOS 6502 has stepped INC $FFFF on the byte 0x02: it wrote 0x02 and
\* then 0x03 to 0xFFFF
C29_IncWroteTwiceOnNmos ==
  /\ ~is65C02 /\ Stepped(238) /\ SteppedReadModifyWrite
  /\ Len(Writes) = 2
  /\ Writes[1].a = 65535 /\ Writes[1].v = 2
  /\ Writes[2].a = 65535 /\ Writes[2].v = 3

SteppedAbsoluteXReadModifyWrite ==
  /\ last.call = "step" /\ fault = <<>>
  /\ op.fn \in {"inc", "dec", "asl", "lsr", "rol", "ror"}
  /\ op.arg = "readAddrAbsoluteX"

\* C30: INC abs,X and DEC abs,X take 7 cycles on every flavor, page
\* crossed or not; ASL, LSR, ROL and ROR abs,X take 7 cycles on the NMOS
\* 6502, and on the 65C02 flavors 6 when the index does not carry into the
\* high byte of the address and 7 when it does.
C30_AbsoluteXReadModifyWriteCycles ==
  SteppedAbsoluteXReadModifyWrite =>
    cycles = pre.cycles
      + (IF op.fn \in {"inc", "dec"} \/ ~is65C02 \/ PageCrossed THEN 7 ELSE 6)

\* the 65C02 has stepped INC abs,X with no page crossed, in 7 cycles
C30_IncPaysWithoutCross ==
  /\ is65C02 /\ Stepped(254) /\ SteppedAbsoluteXReadModifyWrite
  /\ ~PageCrossed
  /\ cycles = pre.cycles + 7

\* the last call has stepped ADC or SBC with an immediate operand
SteppedArithmetic ==
  /\ last.call = "step" /\ fault = <<>>
  /\ op.fn \in {"adc", "sbc"} /\ op.mode = "immediate"

\* flag f is set in the status byte v
Has(v, f) == (v \div f) % 2 = 1

\* the operand M of the instruction, and the byte that is added: M for
\* ADC, M XOR 0xFF for SBC
OperandByte == Reads[2].v

Addend == IF op.fn = "adc" THEN OperandByte ELSE 255 - OperandByte

CarryIn == pre.sr % 2

BinarySum == pre.ar + Addend + CarryIn

\* C31: with D clear, ADC leaves r = (A + M + C) mod 256 in A with C set
\* iff A + M + C > 255, N bit 7 of r, Z set iff r = 0 and V set iff
\* A and M have the same bit 7 and r another; SBC does the same with
\* M XOR 0xFF for M, so that r = (A - M - (1 - C)) mod 256 and C is set iff
\* there was no borrow.
C31_BinaryAddAndSubtract ==
  SteppedArithmetic /\ ~Has(pre.sr, D) =>
    /\ ar = BinarySum % 256
    /\ Has(sr, C) = (BinarySum > 255)
    /\ Has(sr, N) = (ar > 127)
    /\ Has(sr, Z) = (ar = 0)
    /\ Has(sr, V) = /\ (pre.ar > 127) # (ar > 127)
                    /\ (Addend > 127) # (ar > 127)
    /\ op.fn = "sbc" =>
         /\ ar = (pre.ar + 256 - OperandByte - (1 - CarryIn)) % 256
         /\ Has(sr, C) = (pre.ar - OperandByte - (1 - CarryIn) >= 0)
    /\ \A f \in {D, I, X, B} : Has(sr, f) = Has(pre.sr, f)
    /\ cycles = pre.cycles + 2

\* SBC #$01 with A = 0x00 and the carry set has borrowed: A is 0xFF, C is
\* clear and N is set
C31_SubtractBorrowed ==
  /\ SteppedArithmetic /\ ~Has(pre.sr, D)
  /\ op.fn = "sbc" /\ pre.ar = 0 /\ OperandByte = 1 /\ CarryIn = 1
  /\ ar = 255 /\ ~Has(sr, C) /\ Has(sr, N)

\* b is a packed decimal number: both nibbles are decimal digits
PackedDecimal(b) == b % 16 <= 9 /\ b \div 16 <= 9

\* the number a packed decimal byte stands for, and the byte for a number
FromPacked(b) == 10 * (b \div 16) + (b % 16)

ToPacked(n) == 16 * (n \div 10) + (n % 10)

DecimalSum == FromPacked(pre.ar) + FromPacked(OperandByte) + CarryIn

DecimalDifference ==
  FromPacked(pre.ar) - FromPacked(OperandByte) - (1 - CarryIn)

\* C32: with D set, on every flavor, for packed decimal A and M and either
\* carry, ADC leaves A + M + C modulo 100 in A as a packed decimal with C
\* set iff the sum is 100 or more, and SBC leaves A - M - (1 - C) modulo
\* 100 with C set iff there was no borrow.
C32_DecimalAddAndSubtract ==
  /\ SteppedArithmetic /\ Has(pre.sr, D)
  /\ PackedDecimal(pre.ar) /\ PackedDecimal(OperandByte)
  => IF op.fn = "adc"
     THEN /\ ar = ToPacked(DecimalSum % 100)
          /\ Has(sr, C) = (DecimalSum >= 100)
     ELSE /\ ar = ToPacked((DecimalDifference + 100) % 100)
          /\ Has(sr, C) = (DecimalDifference >= 0)

\* ADC #$01 with A = 0x99, D set and C clear: A is 0x00 and C is set
C32_NinetyNinePlusOne ==
  /\ SteppedArithmetic /\ Has(pre.sr, D)
  /\ op.fn = "adc" /\ pre.ar = 153 /\ OperandByte = 1 /\ CarryIn = 0
  /\ ar = 0 /\ Has(sr, C)

\* V as the binary rule gives it for the result in A: A and the byte added
\* had the same bit 7 and the result has the other
OverflowOfResult ==
  /\ (pre.ar > 127) # (ar > 127)
  /\ (Addend > 127) # (ar > 127)

\* C33: on the 65C02 flavors ADC and SBC with D set leave N, V and Z as
\* the final, decimal-adjusted result gives them, and make one more read
\* than with D clear, taking one cycle more.
C33_DecimalFlagsFromResult ==
  is65C02 /\ SteppedArithmetic /\ Has(pre.sr, D) =>
    /\ Has(sr, N) = (ar > 127)
    /\ Has(sr, Z) = (ar = 0)
    /\ Has(sr, V) = OverflowOfResult
    /\ Len(Reads) = 3 /\ Len(Writes) = 0
    /\ cycles = pre.cycles + 3

\* the sum of the low nibbles and the carry
LowSum == (pre.ar % 16) + (Addend % 16) + CarryIn

\* the sum of the low nibbles after its decimal correction
CorrectedLow ==
  IF op.fn = "adc"
  THEN (IF LowSum > 9 THEN 16 + ((LowSum + 6) % 16) ELSE LowSum)
  ELSE (IF LowSum < 16 THEN (LowSum + 10) % 16 ELSE LowSum)

\* the sum before the correction of the high nibble
Intermediate ==
  CorrectedLow + 16 * (pre.ar \div 16) + 16 * (Addend \div 16)

\* V as the NMOS 6502 sets it: from bit 7 of A, of the byte added and of
\* the intermediate sum, and from the carry out of that sum
OverflowOfIntermediate ==
  ((pre.ar > 127) # (Addend > 127))
    # ((Intermediate % 256 > 127) # (Intermediate > 255))

\* C33, amended: on the 65C02 flavors ADC and SBC with D set leave N and Z
\* as the final, decimal-adjusted result gives them and V as the sum
\* before the correction of the high nibble gives it, and make one more
\* read than with D clear, taking one cycle more.
C33_DecimalNZFromResult ==
  is65C02 /\ SteppedArithmetic /\ Has(pre.sr, D) =>
    /\ Has(sr, N) = (ar > 127)
    /\ Has(sr, Z) = (ar = 0)
    /\ Has(sr, V) = OverflowOfIntermediate
    /\ Len(Reads) = 3 /\ Len(Writes) = 0
    /\ cycles = pre.cycles + 3

\* ADC #$50 with A = 0x50 and D set on a 65C02: the result is 0x00 with Z
\* set and N clear, and V is set as the intermediate 0xA0 gives it
C33_FiftyPlusFifty ==
  /\ is65C02 /\ SteppedArithmetic /\ Has(pre.sr, D)
  /\ op.fn = "adc" /\ pre.ar = 80 /\ OperandByte = 80 /\ CarryIn = 0
  /\ ar = 0 /\ Has(sr, Z) /\ ~Has(sr, N) /\ Has(sr, V) /\ Has(sr, C)
  /\ Intermediate = 160
  /\ cycles = pre.cycles + 3

SteppedBitBranch ==
  last.call = "step" /\ fault = <<>> /\ op.fn \in {"bbr", "bbs"}

\* the address after the three bytes of the instruction
AfterBitBranch == (pre.pc + 3) % 65536

\* bit n of the byte val
BitOf(val, n) == (val \div (2 ^ n)) % 2

\* the address the branch goes to when it is taken: AfterBitBranch plus
\* the operand byte taken as a signed number
BitBranchTarget ==
  (AfterBitBranch + 65536
     + (IF Reads[4].v > 127 THEN Reads[4].v - 256 ELSE Reads[4].v)) % 65536

\* C34: on the 65C02 flavors BBRn zp,rel goes to the address after the
\* instruction plus the sign-extended rel, modulo 65536, iff bit n of the
\* zero-page byte is 0, and BBSn iff it is 1, and otherwise to the address
\* after the instruction; either way, for each n in 0..7, it takes 6
\* cycles and leaves the zero-page byte, A, X, Y, SP and P as they were.
C34_BitBranch ==
  SteppedBitBranch =>
    /\ is65C02 /\ op.arg \in 0 .. 7
    /\ Len(Reads) = 5 /\ Len(Writes) = 1
    /\ Reads[3].a = Reads[2].v
    /\ Reads[4].a = (pre.pc + 2) % 65536
    /\ pc = (IF (BitOf(Reads[3].v, op.arg) = 1) = (op.fn = "bbs")
             THEN BitBranchTarget ELSE AfterBitBranch)
    /\ cycles = pre.cycles + 6
    /\ Writes[1].a = Reads[3].a /\ Writes[1].v = Reads[3].v
    /\ HandlerRead(store, memPages[0], Reads[3].a) = Reads[3].v
    /\ \A k \in DOMAIN pre.mem : store[k] = pre.mem[k]
    /\ ar = pre.ar /\ xr = pre.xr /\ yr = pre.yr /\ sp = pre.sp
    /\ sr = pre.sr

\* BBR7 $80,+1 has branched on the byte 0x03, whose bit 7 is clear
C34_Bbr7Taken ==
  /\ SteppedBitBranch /\ op.name = "BBR7"
  /\ Reads[3].a = 128 /\ Reads[3].v = 3 /\ Reads[4].v = 1
  /\ pc = pre.pc + 4
  /\ cycles = pre.cycles + 6

\* the last call has stepped an instruction whose argument is an
\* addressing function
SteppedAddressed ==
  /\ last.call = "step" /\ fault = <<>>
  /\ op.fn \notin {"bbr", "bbs", "brc", "brs", "clr", "rmb", "set", "smb"}

ZeroPageXModes == {"readZeroPageX", "writeZeroPageX", "readAddrZeroPageX"}

ZeroPageYModes == {"readZeroPageY", "writeZeroPageY"}

XIndirectModes ==
  {"readZeroPageXIndirect", "writeZeroPageXIndirect",
   "readAddrZeroPageXIndirect"}

IndirectModes ==
  {"readZeroPageIndirectY", "writeZeroPageIndirectY",
   "readAddrZeroPageIndirectY", "readZeroPageIndirect",
   "writeZeroPageIndirect"}

\* C35: zero-page addressing stays in page 0: zp,X and zp,Y reach
\* (operand + index) mod 256, and (zp,X), (zp),Y and (zp) read the low
\* byte of the pointer at p mod 256 and the high byte at (p + 1) mod 256.
C35_ZeroPageWraps ==
  SteppedAddressed =>
    /\ op.arg \in ZeroPageXModes =>
         /\ Touches[3].a = Reads[2].v
         /\ Touches[4].a = (Reads[2].v + pre.xr) % 256
    /\ op.arg \in ZeroPageYModes =>
         /\ Touches[3].a = Reads[2].v
         /\ Touches[4].a = (Reads[2].v + pre.yr) % 256
    /\ op.arg \in XIndirectModes =>
         /\ Touches[3].a = Reads[2].v
         /\ Touches[4].a = (Reads[2].v + pre.xr) % 256
         /\ Touches[5].a = (Reads[2].v + pre.xr + 1) % 256
         /\ Touches[6].a = Touches[4].v + 256 * Touches[5].v
    /\ op.arg \in IndirectModes =>
         /\ Touches[3].a = Reads[2].v
         /\ Touches[4].a = (Reads[2].v + 1) % 256
         /\ Touches[Len(Touches)].a
              = (Touches[3].v + 256 * Touches[4].v
                   + (IF op.mode = "zeroPageIndirect" THEN 0 ELSE pre.yr))
                % 65536

\* LDA ($FF),Y has read the low byte of its pointer at 0x00FF and the high
\* byte at 0x0000
C35_PointerAtEndOfPage ==
  /\ Stepped(177) /\ SteppedAddressed
  /\ op.arg = "readZeroPageIndirectY"
  /\ Reads[2].v = 255
  /\ Reads[3].a = 255 /\ Reads[4].a = 0
  /\ Reads[Len(Reads)].a = (Reads[3].v + 256 * Reads[4].v + pre.yr) % 65536

\* the NMOS 6502 has stepped OAL (0xAB)
SteppedOal == Stepped(171) /\ fault = <<>> /\ ~is65C02

\* C36: OAL (0xAB) on the NMOS 6502 ORs 0xEE into A, ANDs the result with
\* X and with the immediate operand, stores that in A and in X and sets N
\* and Z from it.
C36_OalAndsWithX ==
  SteppedOal =>
    /\ ar = And(And(Or(pre.ar, 238), pre.xr), Reads[2].v)
    /\ xr = ar
    /\ sr = WithNZ(pre.sr, ar)

\* C36, amended: OAL (0xAB) on the NMOS 6502 ORs 0xEE into A, ANDs the
\* result with the immediate operand, stores that in A and in X, whatever
\* X was, and sets N and Z from it.
C36_OalAndsWithOperand ==
  SteppedOal =>
    /\ ar = And(Or(pre.ar, 238), Reads[2].v)
    /\ xr = ar
    /\ sr = WithNZ(pre.sr, ar)

\* OAL #$FF with A = 0x00 and X = 0x00 has left 0xEE in A and in X
C36_OalIgnoresX ==
  /\ SteppedOal
  /\ pre.ar = 0 /\ pre.xr = 0 /\ Reads[2].v = 255
  /\ ar = 238 /\ xr = 238
  /\ Has(sr, N) /\ ~Has(sr, Z)

\* the last call has stepped RTI, and the call before it was an irq() or
\* an nmi() that was taken
SteppedRtiAfterInterrupt ==
  /\ last.call = "step" /\ fault = <<>> /\ op.fn = "rti"
  /\ \/ last.before.call = "nmi"
     \/ last.before.call = "irq" /\ ~Has(last.before.sr, I)

\* C37: when irq() with I clear, or nmi(), is followed at once by RTI, the
\* pc, SP, A, X, Y and all of P are as they were before the interrupt,
\* for every SP.
C37_InterruptThenRti ==
  SteppedRtiAfterInterrupt =>
    /\ pc = last.before.pc
    /\ sp = last.before.sp
    /\ ar = last.before.ar /\ xr = last.before.xr /\ yr = last.before.yr
    /\ sr = last.before.sr

\* nmi() at SP = 0x00 with I and D set on a 65C02, then RTI: the stack
\* wrapped, and I and D are set again
C37_NmiRtiAcrossStackWrap ==
  /\ SteppedRtiAfterInterrupt /\ is65C02
  /\ last.before.call = "nmi"
  /\ last.before.sp = 0 /\ sp = 0 /\ pre.sp = 253
  /\ Has(last.before.sr, D) /\ ~Has(pre.sr, D) /\ Has(sr, D)
  /\ Has(sr, I)
  /\ pc = last.before.pc

\* the mark "op" of the instruction whose mark "end" is log[i]
OpBefore(i) ==
  CHOOSE j \in 1 .. i - 1 :
    log[j].k = "op" /\ \A m \in j + 1 .. i - 1 : log[m].k # "op"

\* the last call ran the loop of stepCycles or of stepCyclesDebug
RanCycleLoop == last.call \in {"stepCycles", "stepCyclesDebug"}

\* C38: the loop of stepCycles(c) and of stepCyclesDebug(c, cb) ends.
\* Every instruction that ran to its end, of any flavor, the one-cycle
\* NOPs of the 65C02, HLT, WAI and STP among them, left the cycle counter
\* at least 1 above where it found it; so each instruction of the loop
\* began with the counter above where the one before it began and below
\* start + c, and the loop began max(c, 0) instructions at most.
C38_CycleLoopEnds ==
  /\ \A i \in DOMAIN log :
       log[i].k = "end" => log[i].cyc >= log[OpBefore(i)].cyc + 1
  /\ RanCycleLoop =>
       /\ \A i, j \in DOMAIN log :
            i < j /\ log[i].k = "op" /\ log[j].k = "op" =>
              log[i].cyc < log[j].cyc
       /\ \A i \in DOMAIN log :
            log[i].k = "op" =>
              pre.cycles <= log[i].cyc /\ log[i].cyc < pre.cycles + last.arg
       /\ Marks("op") <= (IF last.arg > 0 THEN last.arg ELSE 0)

\* stepCyclesDebug(2, cb), cb never true, has run a NOP of one cycle, which
\* left the loop's test true, and then a second instruction
C38_OneCycleNopThenAnother ==
  /\ last.call = "stepCyclesDebug" /\ last.arg = 2 /\ last.cb = 0
  /\ fault = <<>> /\ is65C02
  /\ Marks("op") = 2 /\ Marks("end") = 2
  /\ \E i \in DOMAIN log :
       /\ log[i].k = "end" /\ OpBefore(i) = 1
       /\ log[i].cyc = pre.cycles + 1
  /\ cycles >= pre.cycles + 2

\* the last call was step(), on the NMOS 6502, and the call before it was
\* a step() that ran HLT
SteppedAfterHlt ==
  /\ flavor = FLAVOR_6502
  /\ last.call = "step" /\ last.before.call = "step"
  /\ last.before.fn = "hlt"

\* C39: on the NMOS 6502 a step() that follows a step() that ran HLT finds
\* stop set and the pc where the HLT was fetched, fetches the HLT opcode
\* again, and leaves the pc, A, X, Y, SP, P and the memory as they were and
\* stop set, with the cycle counter 3 higher: the state it leaves differs
\* from the one it found in the counter alone, so any number of further
\* steps do the same.
C39_HaltedCpuStaysHalted ==
  SteppedAfterHlt =>
    /\ pre.stop /\ pre.pc = last.before.pc
    /\ fault = <<>> /\ op.fn = "hlt"
    /\ pc = pre.pc /\ RegistersKept
    /\ stop /\ wait = pre.wait
    /\ cycles = pre.cycles + 3
    /\ Len(Reads) = 3 /\ Writes = <<>>

\* the HLT at 0xFFFF has been stepped twice: the pc is 0xFFFF still and the
\* counter is at 6
C39_SecondStepOfHlt ==
  /\ SteppedAfterHlt /\ callsLeft = 0
  /\ pre.pc = 65535 /\ pc = 65535
  /\ pre.stop /\ stop
  /\ pre.cycles = 3 /\ cycles = 6

\* the opcodes of the flavor fl whose Instruction runs the function fn
OpcodesOf(fl, fn) == {b \in 0 .. PAGES - 1 : OPARY[fl][b].fn = fn}

\* the functions that set a latch, by flavor and opcode
LatchOpcodes ==
  /\ OpcodesOf(FLAVOR_ROCKWELL_65C02, "wai") = {}
  /\ OpcodesOf(FLAVOR_ROCKWELL_65C02, "stp") = {}
  /\ OpcodesOf(FLAVOR_ROCKWELL_65C02, "hlt") = {}
  /\ OPARY[FLAVOR_ROCKWELL_65C02][203].fn = "nop"
  /\ OPARY[FLAVOR_ROCKWELL_65C02][219].fn = "nop"
  /\ OpcodesOf(FLAVOR_6502, "wai") = {}
  /\ OpcodesOf(FLAVOR_6502, "stp") = {}
  /\ OpcodesOf(FLAVOR_6502, "hlt") = HltOpcodes
  /\ OpcodesOf(FLAVOR_WDC_65C02, "wai") = {203}
  /\ OpcodesOf(FLAVOR_WDC_65C02, "stp") = {219}
  /\ OpcodesOf(FLAVOR_WDC_65C02, "hlt") = {}

\* the last call fetched, as an opcode, a byte of the set s
FetchedOneOf(s) ==
  /\ last.call \in {"step", "stepN", "stepCycles", "stepCyclesDebug"}
  /\ \E i \in DOMAIN Fetches : Fetches[i].v \in s

\* C40: on the Rockwell 65C02 wait and stop are never set, 0xCB and 0xDB
\* being NOPs; on the NMOS 6502 wait is never set and a call leaves stop
\* set that found it clear only when it fetched an HLT opcode; on the WDC
\* 65C02 a call leaves wait set that found it clear only when it fetched
\* 0xCB, and leaves stop set that found it clear only when it fetched 0xDB.
C40_LatchesByFlavor ==
  /\ LatchOpcodes
  /\ flavor = FLAVOR_ROCKWELL_65C02 => ~wait /\ ~stop
  /\ flavor = FLAVOR_6502 =>
       /\ ~wait
       /\ stop /\ ~pre.stop => FetchedOneOf(HltOpcodes)
  /\ flavor = FLAVOR_WDC_65C02 =>
       /\ wait /\ ~pre.wait => FetchedOneOf({203})
       /\ stop /\ ~pre.stop => FetchedOneOf({219})

\* the Rockwell 65C02 has stepped 0xDB, a NOP of two bytes there, with
\* neither latch set
C40_RockwellSteppedStp ==
  /\ flavor = FLAVOR_ROCKWELL_65C02 /\ Stepped(219)
  /\ fault = <<>> /\ op.fn = "nop"
  /\ pc = Lo16(pre.pc + 2)
  /\ ~wait /\ ~stop
====
